---- MODULE Spec2Model ----
(***************************************************************************)
(* Stock-status detection and polling engine of Matcha-Restock-Tracker.    *)
(*                                                                         *)
(* SpecSC models the server engine: src/src/services/StockChecker.js over  *)
(* src/src/services/database.js, driven by the routes of src/server.js.    *)
(* SpecSCFair adds the fairness of its awaits.  SpecPC models its          *)
(* scheduler: startPeriodicChecking, stopPeriodicChecking and the timers.  *)
(* SpecIX models the batch check of the service class defined in           *)
(* src/MatchaApp/app/(tabs)/index.tsx over ProductStorage.ts.              *)
(* SpecMS models checkSingleProduct and fetchWithProxyFallback of          *)
(* src/MatchaApp/services/MatchaStockService.ts next to the screen's       *)
(* ProductStorage calls; SpecMW its checkAllProducts next to the screen's  *)
(* checks, with network and store answering.                               *)
(* SpecCL applies the three classifiers to pages and addresses.            *)
(*                                                                         *)
(* JavaScript runs one callback at a time; an async function gives up the  *)
(* processor at every await.  Each action below is the code that runs      *)
(* between two awaits of one call, so actions of different calls           *)
(* interleave exactly at the awaits.                                       *)
(***************************************************************************)
EXTENDS Naturals, Sequences, FiniteSets, TLC

(* ------------------------------ bounds --------------------------------- *)
\* number of tracked products in the store
MaxProducts == 2
\* number of times checkAllProducts is invoked in a behaviour
MaxRequests == 2
\* number of per-product checks started in a behaviour, by sweeps and on demand
MaxChecks == 3
\* number of checkSingleProduct calls the screen makes in a behaviour
MaxScreenChecks == 2
\* number of addProduct / deleteProduct / updateProduct calls of the screen
MaxEdits == 1
\* number of startPeriodicChecking / stopPeriodicChecking calls in a behaviour
MaxSchedulerCalls == 3

(* ------------------------------ processes ------------------------------ *)
\* concurrent invocations of checkAllProducts that can be past their first line
Sweeps == {"sweep1", "sweep2"}
\* the on-demand check route's invocation of checkProduct
Manuals == {"manual"}
Procs == Sweeps \cup Manuals

ProductIds == 1..MaxProducts
\* an id no row of the products table has (the check route takes any id)
MissingId == MaxProducts + 1

(* ------------------------------ state ---------------------------------- *)
VARIABLES
  \* StockChecker / service class fields
  isChecking,      \* this.isChecking
  \* database.js: table products (id -> row) and table stock_checks
  db, checks,
  \* ProductStorage.ts: the AsyncStorage item 'matcha_products'
  storage,
  \* one checkAllProducts invocation per sweep slot
  spc,             \* where the invocation is
  sproducts,       \* const products, as the store returned them
  si,              \* loop variable i (1-based)
  \* one checkProduct / checkSingleProduct invocation per process
  cpc,             \* where the invocation is
  cid,             \* productId argument
  cprod,           \* const product (the row getProduct returned / the object passed)
  cres,            \* let result / html (outcome of the retrieval channels)
  cloaded,         \* the list getProducts returned inside ProductStorage.updateProduct
  \* observation of the run
  nIdleRequests,   \* invocations of checkAllProducts made while isChecking was false
  nBusyRequests,   \* invocations of checkAllProducts made while isChecking was true
  nStarted,        \* invocations that went past the guard
  dropped,         \* invocations that returned at the guard
  nChecks,         \* per-product checks the requests so far may start
  sdelays,         \* inter-product delays of the slot's current/last sweep
  schecked,        \* ids handed to checkProduct by the current/last sweep, in order
  send,            \* how the slot's last sweep ended
  cdbfail,         \* a store operation of this check was rejected
  canalyzed,       \* this check invoked analyzeStockStatus
  cappended,       \* stock_checks rows this check inserted
  cnotified,       \* this check emitted a restock notification
  \* MatchaStockService.fetchWithProxyFallback, per checkSingleProduct invocation
  cchan,           \* loop variable i (1-based): the proxy being tried
  inflight,        \* proxies whose fetch(proxyUrl) has been issued and not answered
  cerr,            \* the way the most recently tried proxy failed
  callEmpty,       \* the fetch got zero-length content from every proxy it tried
  \* the screen's call of a ProductStorage operation
  epc,             \* where the call is
  earg,            \* the product it adds, deletes or updates
  eloaded,         \* the list getProducts returned inside it
  nEdits,          \* calls made so far
  \* the classifiers called on their own
  clCall,          \* the last call of analyzeStockStatus: classifier, arguments, result
  lastIndex,       \* lastIndex of the price pattern objects the last call tested
  \* the scheduler of StockChecker.js (startPeriodicChecking / stopPeriodicChecking)
  checkInterval,   \* this.checkInterval: the stored interval timer, 0 for null
  intervals,       \* the interval timers that are active (set and not cleared)
  timeouts,        \* the warm-up timers that are pending (set and not yet fired)
  nTimers,         \* timers created so far; a new timer's id is the next number
  nSchedulerCalls, \* calls of startPeriodicChecking / stopPeriodicChecking so far
  scheduling,      \* startPeriodicChecking was called and stopPeriodicChecking not since
  nFired           \* timer callbacks run so far

engineVars == <<isChecking, spc, sproducts, si>>
storeVars  == <<db, checks, storage>>
checkVars  == <<cpc, cid, cprod, cres, cloaded>>
countVars  == <<nIdleRequests, nBusyRequests, nStarted, dropped, nChecks>>
sweepGhost == <<sdelays, schecked, send>>
checkGhost == <<cdbfail, canalyzed, cappended, cnotified>>
fetchVars  == <<cchan, inflight, cerr, callEmpty>>
editVars   == <<epc, earg, eloaded, nEdits>>
classVars  == <<clCall, lastIndex>>
timerVars  == <<checkInterval, intervals, timeouts, nTimers, nSchedulerCalls,
                scheduling, nFired>>
vars == <<engineVars, storeVars, checkVars, countVars, sweepGhost, checkGhost,
          fetchVars, editVars, classVars, timerVars>>

(* ------------------------------ values --------------------------------- *)
Status == {"checking", "in-stock", "out-of-stock", "error"}
TerminalStatus == {"in-stock", "out-of-stock", "error"}
\* "NULL" is the SQL NULL of a column never written
Confidence == {"NULL", "low", "medium", "high"}

\* database.js addProduct: status 'checking', no confidence, no phrases
NewRow == [status |-> "checking", confidence |-> "NULL", detected_phrases |-> <<>>]
\* getProduct resolves null when no row matches
NullRow == [status |-> "null", confidence |-> "NULL", detected_phrases |-> <<>>]

\* a page is: the phrases its lower-cased text is made of, whether its html holds
\* a currency amount, whether it holds a submit/add-to-cart control, whether it
\* holds a <form with a quantity field, and its length in characters
PageSoldOut   == [text |-> {"sold out"}, price |-> FALSE, button |-> TRUE,
                  form |-> FALSE, length |-> 100]
PageAddToCart == [text |-> {"add to cart"}, price |-> TRUE, button |-> TRUE,
                  form |-> FALSE, length |-> 100]
\* the zero-length html
PageBlank     == [text |-> {}, price |-> FALSE, button |-> FALSE,
                  form |-> FALSE, length |-> 0]
\* the pages the retrieval channels hand to the engine
Pages == {PageBlank, PageAddToCart}

NoResult == [success |-> FALSE, html |-> PageBlank, error |-> "none"]
\* outcomes of checkWithPuppeteer / checkWithAxios
FetchResults ==
  {[success |-> TRUE, html |-> h, error |-> "none"] : h \in Pages}
  \cup {[success |-> FALSE, html |-> PageBlank, error |-> "fetch failed"]}

(* --------------------- StockChecker.analyzeStockStatus ------------------ *)
\* the configured phrases that occur inside a longer configured phrase
Within(fragment) ==
  CASE fragment = "add to cart" -> {"cart"}
    [] fragment = "buy now" -> {"buy"}
    [] fragment = "buy it now" -> {"buy"}
    [] fragment = "purchase now" -> {"purchase"}
    [] fragment = "available now" -> {"available"}
    [] fragment = "unavailable" -> {"available"}
    [] fragment = "not available" -> {"available"}
    [] fragment = "currently unavailable" -> {"unavailable", "available"}
    [] fragment = "temporarily unavailable" -> {"unavailable", "available"}
    [] fragment = "currently not available" -> {"not available", "available"}
    [] fragment = "no longer available" -> {"available"}
    [] fragment = "notify when available" -> {"available"}
    [] fragment = "notify me when available" -> {"available"}
    [] fragment = "email when available" -> {"available"}
    [] fragment = "temporarily out of stock" -> {"out of stock"}
    [] fragment = "this item is out of stock" -> {"out of stock"}
    [] fragment = "item is currently sold out" -> {"sold out"}
    [] fragment = "back in stock soon" -> {"in stock"}
    [] fragment = "back in stock notification" -> {"in stock"}
    [] fragment = "join waitlist" -> {"waitlist"}
    [] fragment = "add to waitlist" -> {"waitlist"}
    [] OTHER -> {}

\* text.includes(phrase): the phrase is one of the text's fragments or occurs
\* inside one
Includes(text, phrase) == \E f \in text : phrase = f \/ phrase \in Within(f)

outOfStockPhrasesHigh ==
  << "out of stock", "sold out", "currently unavailable",
     "temporarily out of stock", "item is currently sold out",
     "this item is out of stock", "notify when available",
     "email when available", "join waitlist", "add to waitlist",
     "zaikogire", "sold out" >>
outOfStockPhrasesMedium ==
  << "unavailable", "not available", "temporarily unavailable",
     "out-of-stock", "soldout", "no longer available",
     "currently not available", "notify me when available",
     "back in stock soon", "coming soon" >>
inStockPhrasesHigh ==
  << "add to cart", "add to bag", "buy now", "purchase now",
     "order now", "in stock", "available now", "ready to ship",
     "ships today", "add to basket" >>
inStockPhrasesMedium ==
  << "available", "buy it now", "shop now", "get it now",
     "add item", "select options", "choose options", "quick add" >>

\* index of the first phrase of the list the text includes, 0 if none
FirstMatch(phrases, text) ==
  IF \E k \in 1..Len(phrases) : Includes(text, phrases[k])
  THEN CHOOSE k \in 1..Len(phrases) :
         /\ Includes(text, phrases[k])
         /\ \A j \in 1..(k - 1) : ~Includes(text, phrases[j])
  ELSE 0

Analysis(inStock, conf, phrases) ==
  [isInStock |-> inStock, confidence |-> conf, detectedPhrases |-> phrases]

\* a fault: the pattern objects are created once and shared by all calls
pricePatternsShared == lastIndex

\* line 225-227: the price patterns are literals evaluated anew by every call,
\* so the objects a call tests start with lastIndex 0
pricePatternsLastIndex == 0

\* a fault: the price test succeeds on every page
patternTestAny(html, from) == TRUE

\* line 231: pattern.test(html) of a global pattern searches from its lastIndex
\* on; the amount of a page lies before any lastIndex a match has left
patternTest(html, from) == html.price /\ from = 0

\* lastIndex of the pattern object after test: past the match, or 0 after a miss
lastIndexAfter(html, from) == IF patternTest(html, from) THEN 1 ELSE 0

\* line 223: no phrase was detected, so the price patterns are tested
priceTested(html) ==
  /\ FirstMatch(outOfStockPhrasesHigh, html.text) = 0
  /\ FirstMatch(outOfStockPhrasesMedium, html.text) = 0
  /\ FirstMatch(inStockPhrasesHigh, html.text) = 0
  /\ FirstMatch(inStockPhrasesMedium, html.text) = 0

analyzeStockStatus(html) ==
  LET text == html.text
      oh == FirstMatch(outOfStockPhrasesHigh, text)
      om == FirstMatch(outOfStockPhrasesMedium, text)
      ih == FirstMatch(inStockPhrasesHigh, text)
      im == FirstMatch(inStockPhrasesMedium, text)
      price == patternTest(html, pricePatternsLastIndex)
      priceFound == IF price THEN <<"price found">> ELSE <<>>
      cartFound  == IF html.button THEN <<"cart button found">> ELSE <<>>
  IN  IF oh > 0 THEN Analysis(FALSE, "high", <<outOfStockPhrasesHigh[oh]>>)
      ELSE IF om > 0 THEN Analysis(FALSE, "medium", <<outOfStockPhrasesMedium[om]>>)
      ELSE IF ih > 0 THEN Analysis(TRUE, "high", <<inStockPhrasesHigh[ih]>>)
      ELSE IF im > 0 THEN Analysis(TRUE, "medium", <<inStockPhrasesMedium[im]>>)
      ELSE IF price \/ html.button
           THEN Analysis(TRUE, "medium", priceFound \o cartFound)
           ELSE Analysis(FALSE, "low", <<"no indicators found">>)

\* no product (ProductStorage.ts, Product)
NullProduct == [id |-> 0, url |-> "", status |-> "null", confidence |-> "NULL",
                detectedPhrases |-> <<>>]

\* no classifier has been called on its own yet
NoCall == [fn |-> "none", html |-> PageBlank, url |-> "",
           out |-> Analysis(FALSE, "low", <<>>)]

statusOf(analysis) == IF analysis.isInStock THEN "in-stock" ELSE "out-of-stock"

(* ------------------------------ database.js ---------------------------- *)
\* getProduct(id): the row, or null
getProduct(id) == IF id \in DOMAIN db THEN db[id] ELSE NullRow

\* getAllProducts(): ORDER BY created_at DESC, i.e. newest (largest id) first
RECURSIVE Descending(_)
Descending(n) == IF n = 0 THEN <<>> ELSE <<n>> \o Descending(n - 1)
getAllProducts == SelectSeq(Descending(MaxProducts), LAMBDA id : id \in DOMAIN db)

\* updateProduct(id, updates): UPDATE products SET ... WHERE id = ?
\* (a missing id updates no row and still resolves)
updateProduct(id, updates) ==
  IF id \in DOMAIN db
  THEN [db EXCEPT ![id] = [f \in DOMAIN db[id] |->
                             IF f \in DOMAIN updates THEN updates[f] ELSE db[id][f]]]
  ELSE db

\* addStockCheck(productId, status, confidence, detectedPhrases): INSERT
addStockCheck(productId, status, confidence, detectedPhrases) ==
  Append(checks, [product_id |-> productId, status |-> status,
                  confidence |-> confidence, detected_phrases |-> detectedPhrases])


(* ------------------- StockChecker.checkProduct (31-104) ----------------- *)
\* the call checkProduct(id) made by process p: everything up to its first await
StartCheck(p, id) ==
  /\ cpc' = [cpc EXCEPT ![p] = "getProduct"]
  /\ cid' = [cid EXCEPT ![p] = id]
  /\ cprod' = [cprod EXCEPT ![p] = NullRow]
  /\ cres' = [cres EXCEPT ![p] = NoResult]
  /\ cdbfail' = [cdbfail EXCEPT ![p] = FALSE]
  /\ canalyzed' = [canalyzed EXCEPT ![p] = FALSE]
  /\ cappended' = [cappended EXCEPT ![p] = 0]
  /\ cnotified' = [cnotified EXCEPT ![p] = FALSE]
  /\ UNCHANGED cloaded

\* the caller has taken the settled call's result; the invocation is gone
ClearCheck(p) ==
  /\ cpc' = [cpc EXCEPT ![p] = "none"]
  /\ cid' = [cid EXCEPT ![p] = 0]
  /\ cprod' = [cprod EXCEPT ![p] = NullRow]
  /\ cres' = [cres EXCEPT ![p] = NoResult]
  /\ cdbfail' = [cdbfail EXCEPT ![p] = FALSE]
  /\ canalyzed' = [canalyzed EXCEPT ![p] = FALSE]
  /\ cappended' = [cappended EXCEPT ![p] = 0]
  /\ cnotified' = [cnotified EXCEPT ![p] = FALSE]
  /\ UNCHANGED cloaded

\* a rejected store operation lands in the catch block of line 92
Rejected(p) ==
  /\ cpc' = [cpc EXCEPT ![p] = "catch"]
  /\ cdbfail' = [cdbfail EXCEPT ![p] = TRUE]

\* line 33-36: await getProduct; a null row throws 'Product not found'
SC_getProduct(p) ==
  /\ cpc[p] = "getProduct"
  /\ \E ok \in BOOLEAN :
       IF ~ok
       THEN Rejected(p) /\ UNCHANGED cprod
       ELSE /\ cprod' = [cprod EXCEPT ![p] = getProduct(cid[p])]
            /\ cpc' = [cpc EXCEPT ![p] =
                 IF getProduct(cid[p]) = NullRow THEN "catch" ELSE "markChecking"]
            /\ UNCHANGED cdbfail
  /\ UNCHANGED <<engineVars, storeVars, cid, cres, cloaded, countVars, sweepGhost,
                 canalyzed, cappended, cnotified>>
  /\ UNCHANGED <<fetchVars, editVars, classVars>>
  /\ UNCHANGED timerVars

\* line 41-43: await updateProduct(productId, {status: 'checking'})
SC_markChecking(p) ==
  /\ cpc[p] = "markChecking"
  /\ \E ok \in BOOLEAN :
       IF ~ok
       THEN Rejected(p) /\ UNCHANGED db
       ELSE /\ db' = updateProduct(cid[p], [status |-> "checking"])
            /\ cpc' = [cpc EXCEPT ![p] = "puppeteer"]
            /\ UNCHANGED cdbfail
  /\ UNCHANGED <<engineVars, checks, storage, cid, cprod, cres, cloaded, countVars,
                 sweepGhost, canalyzed, cappended, cnotified>>
  /\ UNCHANGED <<fetchVars, editVars, classVars>>
  /\ UNCHANGED timerVars

\* a fault: the failure branch is never taken
fetchFailedIgnored(result) == FALSE

\* line 48: if (!result.success)
fetchFailed(result) == ~result.success

\* line 45-48: await checkWithPuppeteer(product.url)
SC_checkWithPuppeteer(p) ==
  /\ cpc[p] = "puppeteer"
  /\ \E r \in FetchResults :
       /\ cres' = [cres EXCEPT ![p] = r]
       /\ cpc' = [cpc EXCEPT ![p] = IF fetchFailed(r) THEN "axios" ELSE "update"]
       /\ canalyzed' = [canalyzed EXCEPT ![p] = ~fetchFailed(r)]
  /\ UNCHANGED <<engineVars, storeVars, cid, cprod, cloaded, countVars, sweepGhost,
                 cdbfail, cappended, cnotified>>
  /\ UNCHANGED <<fetchVars, editVars, classVars>>
  /\ UNCHANGED timerVars

\* line 50-54, 79: await checkWithAxios(product.url); if (result.success) ... else
SC_checkWithAxios(p) ==
  /\ cpc[p] = "axios"
  /\ \E r \in FetchResults :
       /\ cres' = [cres EXCEPT ![p] = r]
       /\ cpc' = [cpc EXCEPT ![p] = IF fetchFailed(r) THEN "errUpdate" ELSE "update"]
       /\ canalyzed' = [canalyzed EXCEPT ![p] = ~fetchFailed(r)]
  /\ UNCHANGED <<engineVars, storeVars, cid, cprod, cloaded, countVars, sweepGhost,
                 cdbfail, cappended, cnotified>>
  /\ UNCHANGED <<fetchVars, editVars, classVars>>
  /\ UNCHANGED timerVars

\* line 54-61: stockAnalysis = analyzeStockStatus(...); await updateProduct(...)
SC_updateResult(p) ==
  /\ cpc[p] = "update"
  /\ \E ok \in BOOLEAN :
       IF ~ok
       THEN Rejected(p) /\ UNCHANGED db
       ELSE LET a == analyzeStockStatus(cres[p].html)
            IN  /\ db' = updateProduct(cid[p],
                           [status |-> statusOf(a), confidence |-> a.confidence,
                            detected_phrases |-> a.detectedPhrases])
                /\ cpc' = [cpc EXCEPT ![p] = "addCheck"]
                /\ UNCHANGED cdbfail
  /\ UNCHANGED <<engineVars, checks, storage, cid, cprod, cres, cloaded, countVars,
                 sweepGhost, canalyzed, cappended, cnotified>>
  /\ UNCHANGED <<fetchVars, editVars, classVars>>
  /\ UNCHANGED timerVars

\* line 64-78: await addStockCheck(...); return {success: true, ...}
SC_addStockCheck(p) ==
  /\ cpc[p] = "addCheck"
  /\ \E ok \in BOOLEAN :
       IF ~ok
       THEN Rejected(p) /\ UNCHANGED <<checks, cappended>>
       ELSE LET a == analyzeStockStatus(cres[p].html)
            IN  /\ checks' = addStockCheck(cid[p], statusOf(a), a.confidence,
                                           a.detectedPhrases)
                /\ cappended' = [cappended EXCEPT ![p] = @ + 1]
                /\ cpc' = [cpc EXCEPT ![p] = "ret"]
                /\ UNCHANGED cdbfail
  /\ UNCHANGED <<engineVars, db, storage, cid, cprod, cres, cloaded, countVars,
                 sweepGhost, canalyzed, cnotified>>
  /\ UNCHANGED <<fetchVars, editVars, classVars>>
  /\ UNCHANGED timerVars

\* line 79-91: await updateProduct(productId, {status: 'error'}); return {success: false}
SC_updateError(p) ==
  /\ cpc[p] = "errUpdate"
  /\ \E ok \in BOOLEAN :
       IF ~ok
       THEN Rejected(p) /\ UNCHANGED db
       ELSE /\ db' = updateProduct(cid[p], [status |-> "error"])
            /\ cpc' = [cpc EXCEPT ![p] = "ret"]
            /\ UNCHANGED cdbfail
  /\ UNCHANGED <<engineVars, checks, storage, cid, cprod, cres, cloaded, countVars,
                 sweepGhost, canalyzed, cappended, cnotified>>
  /\ UNCHANGED <<fetchVars, editVars, classVars>>
  /\ UNCHANGED timerVars

\* line 92-103: catch (error) { await updateProduct(productId, {status: 'error'});
\* return {success: false} }; a rejection inside the handler leaves the call as
\* a rejected promise
SC_catch(p) ==
  /\ cpc[p] = "catch"
  /\ \E ok \in BOOLEAN :
       IF ~ok
       THEN /\ cpc' = [cpc EXCEPT ![p] = "threw"]
            /\ cdbfail' = [cdbfail EXCEPT ![p] = TRUE]
            /\ UNCHANGED db
       ELSE /\ db' = updateProduct(cid[p], [status |-> "error"])
            /\ cpc' = [cpc EXCEPT ![p] = "ret"]
            /\ UNCHANGED cdbfail
  /\ UNCHANGED <<engineVars, checks, storage, cid, cprod, cres, cloaded, countVars,
                 sweepGhost, canalyzed, cappended, cnotified>>
  /\ UNCHANGED <<fetchVars, editVars, classVars>>
  /\ UNCHANGED timerVars


(* ---------------- StockChecker.checkAllProducts (259-289) --------------- *)
\* a fault: the guard never stops an invocation
AlreadyCheckingNever == FALSE

\* line 260: if (this.isChecking) return
AlreadyChecking == isChecking

\* a fault: the delay also follows the last product
needsDelayAlways(i, n) == TRUE

\* line 278: if (i < products.length - 1), with i counted from 1
needsDelay(i, n) == i < n

\* a fault: the loop stops one product early
loopContinuesShort(i, n) == i < n

\* line 271: the loop test i < products.length, with i counted from 1
loopContinues(i, n) == i <= n

\* a fault: the flag is cleared at the end of the try block only
flagAfterSweepLeak(how) == how # "completed"

\* line 288: this.isChecking = false, reached from the end of the try block and
\* from the catch block alike
flagAfterSweep(how) == FALSE

\* the sweep leaves checkAllProducts
FinishSweep(s, how) ==
  /\ isChecking' = flagAfterSweep(how)
  /\ spc' = [spc EXCEPT ![s] = "idle"]
  /\ send' = [send EXCEPT ![s] = how]

\* line 271-275: i++, the loop test, and the next call of checkProduct
Advance(s, products) ==
  IF loopContinues(si[s] + 1, Len(products))
  THEN /\ si' = [si EXCEPT ![s] = @ + 1]
       /\ spc' = [spc EXCEPT ![s] = "check"]
       /\ schecked' = [schecked EXCEPT ![s] = Append(@, products[si[s] + 1])]
       /\ StartCheck(s, products[si[s] + 1])
       /\ UNCHANGED <<isChecking, send>>
  ELSE /\ FinishSweep(s, "completed")
       /\ ClearCheck(s)
       /\ UNCHANGED <<si, schecked>>

\* invocations are anonymous: a new one takes the first slot that is not in use
FirstIdle(s) == spc[s] = "idle" /\ (s = "sweep1" \/ spc["sweep1"] # "idle")

\* an invocation of checkAllProducts (interval timer, warm-up timer or the
\* check-all route), lines 259-269: the guard, and the flag set before the first await
SC_checkAllProducts(s) ==
  /\ FirstIdle(s)
  /\ nIdleRequests + nBusyRequests < MaxRequests
  /\ isChecking \/ nChecks + MaxProducts <= MaxChecks
  /\ nChecks' = IF AlreadyChecking THEN nChecks ELSE nChecks + MaxProducts
  /\ nIdleRequests' = IF isChecking THEN nIdleRequests ELSE nIdleRequests + 1
  /\ nBusyRequests' = IF isChecking THEN nBusyRequests + 1 ELSE nBusyRequests
  /\ IF AlreadyChecking
     THEN /\ dropped' = dropped + 1
          /\ UNCHANGED <<engineVars, nStarted, sweepGhost>>
     ELSE /\ isChecking' = TRUE
          /\ nStarted' = nStarted + 1
          /\ spc' = [spc EXCEPT ![s] = "getAll"]
          /\ sproducts' = [sproducts EXCEPT ![s] = <<>>]
          /\ si' = [si EXCEPT ![s] = 0]
          /\ sdelays' = [sdelays EXCEPT ![s] = 0]
          /\ schecked' = [schecked EXCEPT ![s] = <<>>]
          /\ send' = [send EXCEPT ![s] = "running"]
          /\ UNCHANGED dropped
  /\ UNCHANGED <<storeVars, checkVars, checkGhost>>
  /\ UNCHANGED <<fetchVars, editVars, classVars>>

\* line 269-275: await getAllProducts(); a rejection goes to the catch of line 284
SC_getAllProducts(s) ==
  /\ spc[s] = "getAll"
  /\ \E ok \in BOOLEAN :
       IF ~ok
       THEN /\ FinishSweep(s, "storeFailed")
            /\ UNCHANGED <<sproducts, si, schecked, checkVars, checkGhost>>
       ELSE /\ sproducts' = [sproducts EXCEPT ![s] = getAllProducts]
            /\ Advance(s, getAllProducts)
  /\ UNCHANGED <<storeVars, countVars, sdelays>>
  /\ UNCHANGED <<fetchVars, editVars, classVars>>
  /\ UNCHANGED timerVars

\* line 275-281: checkProduct has settled; a rejection goes to the catch of line 284
SC_afterCheck(s) ==
  /\ spc[s] = "check"
  /\ cpc[s] \in {"ret", "threw"}
  /\ IF cpc[s] = "threw"
     THEN /\ FinishSweep(s, "aborted")
          /\ ClearCheck(s)
          /\ UNCHANGED <<si, schecked>>
     ELSE IF needsDelay(si[s], Len(sproducts[s]))
          THEN /\ spc' = [spc EXCEPT ![s] = "delay"]
               /\ ClearCheck(s)
               /\ UNCHANGED <<isChecking, send, si, schecked>>
          ELSE Advance(s, sproducts[s])
  /\ UNCHANGED <<sproducts, storeVars, countVars, sdelays>>
  /\ UNCHANGED <<fetchVars, editVars, classVars>>
  /\ UNCHANGED timerVars

\* a fault: the timer between two products is never set, the await never resolves
SC_delayLost(s) == spc[s] = "delay" /\ FALSE /\ UNCHANGED vars

\* line 279: the 3000 ms timer fires
SC_delay(s) ==
  /\ spc[s] = "delay"
  /\ sdelays' = [sdelays EXCEPT ![s] = @ + 1]
  /\ Advance(s, sproducts[s])
  /\ UNCHANGED <<sproducts, storeVars, countVars>>
  /\ UNCHANGED <<fetchVars, editVars, classVars>>
  /\ UNCHANGED timerVars

(* ----------- src/server.js: POST /api/products/:id/check (160-176) ------ *)
SC_manualCheck(m) ==
  /\ cpc[m] = "none"
  /\ nChecks < MaxChecks
  /\ nChecks' = nChecks + 1
  /\ \E id \in ProductIds \cup {MissingId} : StartCheck(m, id)
  /\ UNCHANGED <<engineVars, storeVars, nIdleRequests, nBusyRequests, nStarted,
                 dropped, sweepGhost>>
  /\ UNCHANGED <<fetchVars, editVars, classVars>>
  /\ UNCHANGED timerVars

\* line 163-174: the awaited checkProduct settled; the route answers
SC_manualReturn(m) ==
  /\ cpc[m] \in {"ret", "threw"}
  /\ ClearCheck(m)
  /\ UNCHANGED <<engineVars, storeVars, countVars, sweepGhost>>
  /\ UNCHANGED <<fetchVars, editVars, classVars>>
  /\ UNCHANGED timerVars

\* src/server.js 178-187: POST /api/products/check-all awaits checkAllProducts()
SC_checkAllRoute(s) == SC_checkAllProducts(s) /\ UNCHANGED timerVars

(* ------------------------------ SpecSC --------------------------------- *)
InitCommon ==
  /\ isChecking = FALSE
  /\ checkInterval = 0 /\ intervals = {} /\ timeouts = {}
  /\ nTimers = 0 /\ nSchedulerCalls = 0 /\ scheduling = FALSE /\ nFired = 0
  /\ spc = [s \in Sweeps |-> "idle"]
  /\ sproducts = [s \in Sweeps |-> <<>>]
  /\ si = [s \in Sweeps |-> 0]
  /\ cpc = [p \in Procs |-> "none"]
  /\ cid = [p \in Procs |-> 0]
  /\ cres = [p \in Procs |-> NoResult]
  /\ cloaded = [p \in Procs |-> <<>>]
  /\ nIdleRequests = 0 /\ nBusyRequests = 0 /\ nStarted = 0 /\ dropped = 0
  /\ nChecks = 0
  /\ sdelays = [s \in Sweeps |-> 0]
  /\ schecked = [s \in Sweeps |-> <<>>]
  /\ send = [s \in Sweeps |-> "none"]
  /\ cdbfail = [p \in Procs |-> FALSE]
  /\ canalyzed = [p \in Procs |-> FALSE]
  /\ cappended = [p \in Procs |-> 0]
  /\ cnotified = [p \in Procs |-> FALSE]
  /\ cchan = [p \in Procs |-> 0]
  /\ inflight = [p \in Procs |-> {}]
  /\ cerr = [p \in Procs |-> "none"]
  /\ callEmpty = [p \in Procs |-> FALSE]
  /\ epc = "idle" /\ earg = NullProduct /\ eloaded = <<>> /\ nEdits = 0
  /\ clCall = NoCall
  /\ lastIndex = 0

\* the server starts on a products table of freshly added rows and an empty history
InitSC ==
  /\ InitCommon
  /\ db = [id \in ProductIds |-> NewRow]
  /\ checks = <<>>
  /\ storage = <<>>
  /\ cprod = [p \in Procs |-> NullRow]

NextSC ==
  \/ \E s \in Sweeps : SC_checkAllRoute(s)
  \/ \E s \in Sweeps : SC_getAllProducts(s)
  \/ \E s \in Sweeps : SC_afterCheck(s)
  \/ \E s \in Sweeps : SC_delay(s)
  \/ \E m \in Manuals : SC_manualCheck(m)
  \/ \E m \in Manuals : SC_manualReturn(m)
  \/ \E p \in Procs : SC_getProduct(p)
  \/ \E p \in Procs : SC_markChecking(p)
  \/ \E p \in Procs : SC_checkWithPuppeteer(p)
  \/ \E p \in Procs : SC_checkWithAxios(p)
  \/ \E p \in Procs : SC_updateResult(p)
  \/ \E p \in Procs : SC_addStockCheck(p)
  \/ \E p \in Procs : SC_updateError(p)
  \/ \E p \in Procs : SC_catch(p)

SpecSC == InitSC /\ [][NextSC]_vars

\* Every await of a sweep and of the checks it makes resolves or rejects: the
\* store answers each operation (database.js callbacks), page.goto and axios.get
\* carry timeouts (StockChecker.js 121, 151), the 3000 ms timer fires (279)
FairSC ==
  \A s \in Sweeps :
    /\ WF_vars(SC_getAllProducts(s))
    /\ WF_vars(SC_afterCheck(s))
    /\ WF_vars(SC_delay(s))
    /\ WF_vars(SC_getProduct(s))
    /\ WF_vars(SC_markChecking(s))
    /\ WF_vars(SC_checkWithPuppeteer(s))
    /\ WF_vars(SC_checkWithAxios(s))
    /\ WF_vars(SC_updateResult(s))
    /\ WF_vars(SC_addStockCheck(s))
    /\ WF_vars(SC_updateError(s))
    /\ WF_vars(SC_catch(s))

SpecSCFair == SpecSC /\ FairSC

(* ------ StockChecker.startPeriodicChecking / stopPeriodicChecking (291-314) ---- *)
\* the ids of the timers a behaviour creates: two by each start call
TimerIds == 1..(2 * MaxSchedulerCalls)

\* a fault: clearInterval leaves the timer active
clearIntervalLost(t) == intervals

\* clearInterval(t): the timer t is no longer active
clearInterval(t) == intervals \ {t}

\* line 291-306: the stored interval timer, if any, is cleared; a new interval
\* timer is set and stored; a 10 s warm-up timer is set and its handle dropped
SC_startPeriodicChecking ==
  /\ nSchedulerCalls < MaxSchedulerCalls
  /\ nSchedulerCalls' = nSchedulerCalls + 1
  /\ intervals' = (IF checkInterval # 0 THEN clearInterval(checkInterval)
                                        ELSE intervals) \cup {nTimers + 1}
  /\ checkInterval' = nTimers + 1
  /\ timeouts' = timeouts \cup {nTimers + 2}
  /\ nTimers' = nTimers + 2
  /\ scheduling' = TRUE
  /\ UNCHANGED <<nFired, engineVars, storeVars, checkVars, countVars, sweepGhost,
                 checkGhost, fetchVars, editVars, classVars>>

\* line 308-314: the stored interval timer, if any, is cleared and forgotten
SC_stopPeriodicChecking ==
  /\ nSchedulerCalls < MaxSchedulerCalls
  /\ nSchedulerCalls' = nSchedulerCalls + 1
  /\ IF checkInterval # 0
     THEN intervals' = clearInterval(checkInterval) /\ checkInterval' = 0
     ELSE UNCHANGED <<intervals, checkInterval>>
  /\ scheduling' = FALSE
  /\ UNCHANGED <<timeouts, nTimers, nFired, engineVars, storeVars, checkVars,
                 countVars, sweepGhost, checkGhost, fetchVars, editVars, classVars>>

\* line 298-300: an active interval timer fires; its callback calls checkAllProducts
SC_intervalTick(t, s) ==
  /\ t \in intervals
  /\ SC_checkAllProducts(s)
  /\ nFired' = nFired + 1
  /\ UNCHANGED <<checkInterval, intervals, timeouts, nTimers, nSchedulerCalls,
                 scheduling>>

\* line 303-305: a pending warm-up timer fires once; its callback calls
\* checkAllProducts
SC_warmupFire(t, s) ==
  /\ t \in timeouts
  /\ SC_checkAllProducts(s)
  /\ timeouts' = timeouts \ {t}
  /\ nFired' = nFired + 1
  /\ UNCHANGED <<checkInterval, intervals, nTimers, nSchedulerCalls, scheduling>>

\* the scheduler on its own: the server is started and stopped, its timers fire
\* and the sweeps they start run; no request reaches the routes
NextPC ==
  \/ SC_startPeriodicChecking
  \/ SC_stopPeriodicChecking
  \/ \E t \in TimerIds, s \in Sweeps : SC_intervalTick(t, s)
  \/ \E t \in TimerIds, s \in Sweeps : SC_warmupFire(t, s)
  \/ \E s \in Sweeps : SC_getAllProducts(s)
  \/ \E s \in Sweeps : SC_afterCheck(s)
  \/ \E s \in Sweeps : SC_delay(s)
  \/ \E p \in Sweeps : SC_getProduct(p)
  \/ \E p \in Sweeps : SC_markChecking(p)
  \/ \E p \in Sweeps : SC_checkWithPuppeteer(p)
  \/ \E p \in Sweeps : SC_checkWithAxios(p)
  \/ \E p \in Sweeps : SC_updateResult(p)
  \/ \E p \in Sweeps : SC_addStockCheck(p)
  \/ \E p \in Sweeps : SC_updateError(p)
  \/ \E p \in Sweeps : SC_catch(p)

SpecPC == InitSC /\ [][NextPC]_vars


(***************************************************************************)
(* The service class of src/MatchaApp/app/(tabs)/index.tsx, over           *)
(* src/MatchaApp/services/ProductStorage.ts.                               *)
(***************************************************************************)
UrlShop   == "https://shop.example/matcha"
UrlAmazon == "https://www.amazon.com/dp/B01"
UrlIppodo == "https://ippodotea.com/products/ummon"
UrlEncha  == "https://www.encha.com/products/ceremonial"
\* an Amazon listing whose address names the brand
UrlAmazonIppodo == "https://www.amazon.co.jp/ippodo-matcha/dp/B02"
\* a shop's address whose query string names a retailer
UrlShopViaAmazon == "https://shop.example/matcha?ref=amazon.com"
\* the addresses the classifiers are applied to
Urls == {UrlShop, UrlAmazon, UrlIppodo, UrlAmazonIppodo, UrlShopViaAmazon}

\* the retailer patterns of the classifiers that occur in the address
PatternsIn(url) ==
  CASE url = UrlAmazon -> {"amazon."}
    [] url = UrlIppodo -> {"ippodotea.com", "ippodotea", "ippodo"}
    [] url = UrlEncha -> {"encha.com"}
    [] url = UrlAmazonIppodo -> {"amazon.", "ippodo"}
    [] url = UrlShopViaAmazon -> {"amazon."}
    [] OTHER -> {}

\* the retailer patterns that occur in the host part of the address
PatternsInHost(url) ==
  CASE url = UrlAmazon -> {"amazon."}
    [] url = UrlIppodo -> {"ippodotea.com", "ippodotea", "ippodo"}
    [] url = UrlEncha -> {"encha.com"}
    [] url = UrlAmazonIppodo -> {"amazon."}
    [] OTHER -> {}

\* url.includes(pattern), for the retailer patterns of the classifiers
urlIncludes(url, pattern) == pattern \in PatternsIn(url)

\* ProductStorage.addProduct (37-45): a product as it is first stored
NewProduct(id) ==
  [id |-> id, url |-> IF id = 1 THEN UrlAmazon ELSE UrlShop, status |-> "checking",
   confidence |-> "NULL", detectedPhrases |-> <<>>]

\* index.tsx analyzeStockStatus (735-795)
IX_outOfStockPhrases ==
  << "out of stock", "sold out", "currently unavailable", "not available",
     "temporarily out of stock", "notify when available", "waitlist" >>
IX_inStockPhrases ==
  << "add to cart", "add to bag", "buy now", "purchase now",
     "in stock", "available now", "ready to ship" >>

IX_analyzeStockStatus(html, url) ==
  LET text == html.text
      o == FirstMatch(IX_outOfStockPhrases, text)
      i == FirstMatch(IX_inStockPhrases, text)
      ippodo == urlIncludes(url, "ippodo") \/ urlIncludes(url, "ippodotea")
      amazon == urlIncludes(url, "amazon.")
  IN  IF ippodo /\ (Includes(text, "sold out") \/ Includes(text, "kanbai")
                    \/ Includes(text, "shinagire"))
      THEN Analysis(FALSE, "high", <<"ippodo sold out">>)
      ELSE IF ippodo /\ (Includes(text, "add to cart") \/ Includes(text, "kaato ni ireru"))
      THEN Analysis(TRUE, "high", <<"ippodo add to cart">>)
      ELSE IF amazon /\ (Includes(text, "currently unavailable")
                         \/ Includes(text, "out of stock"))
      THEN Analysis(FALSE, "high", <<"amazon out of stock">>)
      ELSE IF amazon /\ (Includes(text, "add to cart") \/ Includes(text, "buy now"))
      THEN Analysis(TRUE, "high", <<"amazon add to cart">>)
      ELSE IF o > 0 THEN Analysis(FALSE, "high", <<IX_outOfStockPhrases[o]>>)
      ELSE IF i > 0 THEN Analysis(TRUE, "high", <<IX_inStockPhrases[i]>>)
      ELSE IF html.price THEN Analysis(TRUE, "medium", <<"price found">>)
      ELSE Analysis(FALSE, "low", <<"no clear indicators">>)

\* products.findIndex(p => p.id === id), 0 for -1
findIndex(products, id) ==
  IF \E k \in 1..Len(products) : products[k].id = id
  THEN CHOOSE k \in 1..Len(products) :
         /\ products[k].id = id
         /\ \A j \in 1..(k - 1) : products[j].id # id
  ELSE 0

\* the object a stage of checkSingleProduct hands to ProductStorage.updateProduct:
\* {...product, status: 'checking'} (656-660), finalProduct (703-709),
\* errorProduct (723-728)
IX_written(p, stage) ==
  IF stage = "checking" THEN [cprod[p] EXCEPT !.status = "checking"]
  ELSE IF stage = "final"
  THEN LET a == IX_analyzeStockStatus(cres[p].html, cprod[p].url)
       IN  [cprod[p] EXCEPT !.status = statusOf(a), !.confidence = a.confidence,
                            !.detectedPhrases = a.detectedPhrases]
  ELSE [cprod[p] EXCEPT !.status = "error",
                        !.detectedPhrases = <<"Error: " \o cres[p].error>>]

IX_readPc(stage)  == IF stage = "checking" THEN "readChecking"
                     ELSE IF stage = "final" THEN "readFinal" ELSE "readError"
IX_writePc(stage) == IF stage = "checking" THEN "writeChecking"
                     ELSE IF stage = "final" THEN "writeFinal" ELSE "writeError"
\* where checkSingleProduct goes on once updateProduct of the stage resolved
IX_afterPc(stage) == IF stage = "checking" THEN "direct" ELSE "ret"
\* where it goes when updateProduct of the stage threw: the catch of line 720,
\* or out of the call when the catch block's own write threw
IX_throwPc(stage) == IF stage = "error" THEN "threw" ELSE "readError"
Stages == {"checking", "final", "error"}

\* the call checkSingleProduct(product) made by process p, up to its first await
IX_StartCheck(p, product) ==
  /\ cpc' = [cpc EXCEPT ![p] = "readChecking"]
  /\ cid' = [cid EXCEPT ![p] = product.id]
  /\ cprod' = [cprod EXCEPT ![p] = product]
  /\ cres' = [cres EXCEPT ![p] = NoResult]
  /\ cloaded' = [cloaded EXCEPT ![p] = <<>>]
  /\ cdbfail' = [cdbfail EXCEPT ![p] = FALSE]
  /\ canalyzed' = [canalyzed EXCEPT ![p] = FALSE]
  /\ cappended' = [cappended EXCEPT ![p] = 0]
  /\ cnotified' = [cnotified EXCEPT ![p] = FALSE]

IX_ClearCheck(p) ==
  /\ cpc' = [cpc EXCEPT ![p] = "none"]
  /\ cid' = [cid EXCEPT ![p] = 0]
  /\ cprod' = [cprod EXCEPT ![p] = NullProduct]
  /\ cres' = [cres EXCEPT ![p] = NoResult]
  /\ cloaded' = [cloaded EXCEPT ![p] = <<>>]
  /\ cdbfail' = [cdbfail EXCEPT ![p] = FALSE]
  /\ canalyzed' = [canalyzed EXCEPT ![p] = FALSE]
  /\ cappended' = [cappended EXCEPT ![p] = 0]
  /\ cnotified' = [cnotified EXCEPT ![p] = FALSE]

\* ProductStorage.updateProduct (71-72) over getProducts (18-26): the list is
\* read (an unreadable item reads as []), the product is looked up, and a
\* product that is not in the list is not written
IX_updateRead(p, stage) ==
  /\ cpc[p] = IX_readPc(stage)
  /\ \E ok \in BOOLEAN :
       LET products == IF ok THEN storage ELSE <<>>
       IN  /\ cloaded' = [cloaded EXCEPT ![p] = products]
           /\ cpc' = [cpc EXCEPT ![p] =
                IF findIndex(products, cid[p]) > 0 THEN IX_writePc(stage)
                ELSE IX_afterPc(stage)]
  /\ UNCHANGED <<engineVars, storeVars, cid, cprod, cres, countVars, sweepGhost,
                 checkGhost>>
  /\ UNCHANGED <<fetchVars, editVars, classVars>>
  /\ UNCHANGED timerVars

\* ProductStorage.updateProduct (74-81) over saveProducts (28-35): the list read
\* earlier, with the product replaced, is written back; a failed write is thrown
IX_updateWrite(p, stage) ==
  /\ cpc[p] = IX_writePc(stage)
  /\ \E ok \in BOOLEAN :
       IF ~ok
       THEN /\ cpc' = [cpc EXCEPT ![p] = IX_throwPc(stage)]
            /\ cdbfail' = [cdbfail EXCEPT ![p] = TRUE]
            /\ UNCHANGED storage
       ELSE /\ storage' = [cloaded[p] EXCEPT ![findIndex(cloaded[p], cid[p])] =
                             IX_written(p, stage)]
            /\ cpc' = [cpc EXCEPT ![p] = IX_afterPc(stage)]
            /\ UNCHANGED cdbfail
  /\ cloaded' = [cloaded EXCEPT ![p] = <<>>]
  /\ UNCHANGED <<engineVars, db, checks, cid, cprod, cres, countVars, sweepGhost,
                 canalyzed, cappended, cnotified>>
  /\ UNCHANGED <<fetchVars, editVars, classVars>>
  /\ UNCHANGED timerVars

\* line 667-683: the direct fetch of product.url
IX_directFetch(p) ==
  /\ cpc[p] = "direct"
  /\ \E r \in FetchResults :
       /\ cres' = [cres EXCEPT ![p] = r]
       /\ cpc' = [cpc EXCEPT ![p] = IF r.success THEN "readFinal" ELSE "proxy"]
       /\ canalyzed' = [canalyzed EXCEPT ![p] = r.success]
  /\ UNCHANGED <<engineVars, storeVars, cid, cprod, cloaded, countVars, sweepGhost,
                 cdbfail, cappended, cnotified>>
  /\ UNCHANGED <<fetchVars, editVars, classVars>>
  /\ UNCHANGED timerVars

\* line 684-698: the fallback fetch through the proxy; its failure is thrown to line 720
IX_proxyFetch(p) ==
  /\ cpc[p] = "proxy"
  /\ \E r \in FetchResults :
       /\ cres' = [cres EXCEPT ![p] = r]
       /\ cpc' = [cpc EXCEPT ![p] = IF r.success THEN "readFinal" ELSE "readError"]
       /\ canalyzed' = [canalyzed EXCEPT ![p] = r.success]
  /\ UNCHANGED <<engineVars, storeVars, cid, cprod, cloaded, countVars, sweepGhost,
                 cdbfail, cappended, cnotified>>
  /\ UNCHANGED <<fetchVars, editVars, classVars>>
  /\ UNCHANGED timerVars

\* index.tsx checkAllProducts (625-647) has no guard: every invocation goes on to
\* read the products
IX_FinishSweep(s, how) ==
  /\ spc' = [spc EXCEPT ![s] = "idle"]
  /\ send' = [send EXCEPT ![s] = how]
  /\ UNCHANGED isChecking

IX_Advance(s, products) ==
  IF loopContinues(si[s] + 1, Len(products))
  THEN /\ si' = [si EXCEPT ![s] = @ + 1]
       /\ spc' = [spc EXCEPT ![s] = "check"]
       /\ schecked' = [schecked EXCEPT ![s] = Append(@, products[si[s] + 1].id)]
       /\ IX_StartCheck(s, products[si[s] + 1])
       /\ UNCHANGED <<isChecking, send>>
  ELSE /\ IX_FinishSweep(s, "completed")
       /\ IX_ClearCheck(s)
       /\ UNCHANGED <<si, schecked>>

\* line 625-629: an invocation (the timer of initialize, line 582, or the screen)
IX_checkAllProducts(s) ==
  /\ FirstIdle(s)
  /\ nIdleRequests + nBusyRequests < MaxRequests
  /\ nIdleRequests' = IF \A t \in Sweeps : spc[t] = "idle"
                      THEN nIdleRequests + 1 ELSE nIdleRequests
  /\ nBusyRequests' = IF \A t \in Sweeps : spc[t] = "idle"
                      THEN nBusyRequests ELSE nBusyRequests + 1
  /\ nStarted' = nStarted + 1
  /\ spc' = [spc EXCEPT ![s] = "getAll"]
  /\ sproducts' = [sproducts EXCEPT ![s] = <<>>]
  /\ si' = [si EXCEPT ![s] = 0]
  /\ sdelays' = [sdelays EXCEPT ![s] = 0]
  /\ schecked' = [schecked EXCEPT ![s] = <<>>]
  /\ send' = [send EXCEPT ![s] = "running"]
  /\ UNCHANGED <<isChecking, storeVars, checkVars, dropped, nChecks, checkGhost>>
  /\ UNCHANGED <<fetchVars, editVars, classVars>>
  /\ UNCHANGED timerVars

\* line 629-635: await ProductStorage.getProducts() (an unreadable item reads as [])
IX_getProducts(s) ==
  /\ spc[s] = "getAll"
  /\ \E ok \in BOOLEAN :
       LET products == IF ok THEN storage ELSE <<>>
       IN  /\ sproducts' = [sproducts EXCEPT ![s] = products]
           /\ IX_Advance(s, products)
  /\ UNCHANGED <<storeVars, countVars, sdelays>>
  /\ UNCHANGED <<fetchVars, editVars, classVars>>
  /\ UNCHANGED timerVars

\* line 635-641: checkSingleProduct has settled; a rejection goes to the catch of 644
IX_afterCheck(s) ==
  /\ spc[s] = "check"
  /\ cpc[s] \in {"ret", "threw"}
  /\ IF cpc[s] = "threw"
     THEN /\ IX_FinishSweep(s, "aborted")
          /\ IX_ClearCheck(s)
          /\ UNCHANGED <<si, schecked>>
     ELSE IF needsDelay(si[s], Len(sproducts[s]))
          THEN /\ spc' = [spc EXCEPT ![s] = "delay"]
               /\ IX_ClearCheck(s)
               /\ UNCHANGED <<isChecking, send, si, schecked>>
          ELSE IX_Advance(s, sproducts[s])
  /\ UNCHANGED <<sproducts, storeVars, countVars, sdelays>>
  /\ UNCHANGED <<fetchVars, editVars, classVars>>
  /\ UNCHANGED timerVars

\* line 639: the 2000 ms timer fires
IX_delay(s) ==
  /\ spc[s] = "delay"
  /\ sdelays' = [sdelays EXCEPT ![s] = @ + 1]
  /\ IX_Advance(s, sproducts[s])
  /\ UNCHANGED <<sproducts, storeVars, countVars>>
  /\ UNCHANGED <<fetchVars, editVars, classVars>>
  /\ UNCHANGED timerVars

\* the app starts on a list of freshly added products
InitIX ==
  /\ InitCommon
  /\ db = << >>
  /\ checks = <<>>
  /\ storage = [id \in ProductIds |-> NewProduct(id)]
  /\ cprod = [p \in Procs |-> NullProduct]

NextIX ==
  \/ \E s \in Sweeps : IX_checkAllProducts(s)
  \/ \E s \in Sweeps : IX_getProducts(s)
  \/ \E s \in Sweeps : IX_afterCheck(s)
  \/ \E s \in Sweeps : IX_delay(s)
  \/ \E p \in Sweeps, stage \in Stages : IX_updateRead(p, stage)
  \/ \E p \in Sweeps, stage \in Stages : IX_updateWrite(p, stage)
  \/ \E p \in Sweeps : IX_directFetch(p)
  \/ \E p \in Sweeps : IX_proxyFetch(p)

SpecIX == InitIX /\ [][NextIX]_vars


(***************************************************************************)
(* src/MatchaApp/services/MatchaStockService.ts                            *)
(***************************************************************************)
\* analyzeStockStatus (354-472)
outOfStockHighConf ==
  << "out of stock", "sold out", "currently unavailable", "not available",
     "temporarily out of stock", "notify when available", "email when available",
     "join waitlist", "add to waitlist", "back in stock notification",
     "no longer available", "discontinued", "notify me when available",
     "out-of-stock", "soldout" >>
inStockHighConf ==
  << "add to cart", "add to bag", "buy now", "purchase now",
     "in stock", "available now", "ready to ship", "ships today",
     "add item", "buy it now", "order now", "add to basket",
     "shop now", "purchase", "buy", "cart" >>
outOfStockMedConf == << "unavailable", "coming soon", "pre-order", "backorder" >>
inStockMedConf == << "available", "select options", "choose size", "select quantity" >>

\* a fault: the signal branches set the verdict and push no evidence
MS_signalsSilent(html) ==
  IF html.price \/ html.form
  THEN Analysis(TRUE, "medium", <<>>)
  ELSE Analysis(FALSE, "low", <<"no clear indicators">>)

\* line 444-471: no phrase matched; price and quantity-form signals, else the default
MS_signals(html) ==
  LET priceFound == IF html.price THEN <<"price found: amount">> ELSE <<>>
      formFound  == IF html.form THEN <<"quantity form found">> ELSE <<>>
  IN  IF html.price \/ html.form
      THEN Analysis(TRUE, "medium", priceFound \o formFound)
      ELSE Analysis(FALSE, "low", <<"no clear indicators">>)

MS_analyzeStockStatus(html, url) ==
  LET text == html.text
      oh == FirstMatch(outOfStockHighConf, text)
      ih == FirstMatch(inStockHighConf, text)
      om == FirstMatch(outOfStockMedConf, text)
      im == FirstMatch(inStockMedConf, text)
      ippodo == urlIncludes(url, "ippodo-tea.co.jp") \/ urlIncludes(url, "ippodotea.com")
      amazon == urlIncludes(url, "amazon.")
      encha  == urlIncludes(url, "encha.com")
  IN  IF ippodo /\ (Includes(text, "sold out") \/ Includes(text, "kanbai")
                    \/ Includes(text, "shinagire"))
      THEN Analysis(FALSE, "high", <<"ippodo sold out">>)
      ELSE IF ippodo /\ (Includes(text, "add to cart") \/ Includes(text, "kaato ni ireru")
                         \/ Includes(text, "cart"))
      THEN Analysis(TRUE, "high", <<"ippodo add to cart">>)
      ELSE IF amazon /\ (Includes(text, "currently unavailable")
                         \/ Includes(text, "out of stock")
                         \/ Includes(text, "temporarily out of stock"))
      THEN Analysis(FALSE, "high", <<"amazon out of stock">>)
      ELSE IF amazon /\ (Includes(text, "add to cart") \/ Includes(text, "buy now")
                         \/ Includes(text, "add to basket"))
      THEN Analysis(TRUE, "high", <<"amazon add to cart">>)
      ELSE IF encha /\ (Includes(text, "sold out")
                        \/ Includes(text, "notify me when available"))
      THEN Analysis(FALSE, "high", <<"encha sold out">>)
      ELSE IF encha /\ Includes(text, "add to cart")
      THEN Analysis(TRUE, "high", <<"encha add to cart">>)
      ELSE IF oh > 0 THEN Analysis(FALSE, "high", <<outOfStockHighConf[oh]>>)
      ELSE IF ih > 0 THEN Analysis(TRUE, "high", <<inStockHighConf[ih]>>)
      ELSE IF om > 0 THEN Analysis(FALSE, "medium", <<outOfStockMedConf[om]>>)
      ELSE IF im > 0 THEN Analysis(TRUE, "medium", <<inStockMedConf[im]>>)
      ELSE MS_signals(html)


(* ---------------- fetchWithProxyFallback (132-241) ---------------------- *)
\* line 133-158: proxies.length
NumProxies == 4
\* line 133-158: proxies[i].name and what proxies[i].getUrl puts before the target
proxyName == << "AllOrigins", "CORS.sh", "ThingProxy", "Proxy6" >>
proxyPrefix ==
  << "https://api.allorigins.win/get?url=", "https://cors.sh/",
     "https://thingproxy.freeboard.io/fetch/", "https://api.proxify.io/?url=" >>
\* line 164, 175: proxyUrl = proxy.getUrl(url), the address fetch is called with:
\* the proxy's prefix followed by the (encoded) target address
getUrl(i, targetUrl) == <<proxyPrefix[i], targetUrl>>
\* the address a direct GET of the product page is made to
directUrl(targetUrl) == <<"", targetUrl>>
\* line 215: html.length < 100
MinLength == 100

\* a page one character short of the minimum
PageShort == [text |-> {"add to cart"}, price |-> FALSE, button |-> FALSE,
              form |-> FALSE, length |-> 99]
\* what the body of an answering proxy parses to
Payloads == {PageAddToCart, PageBlank, PageShort}

\* line 215: !html || typeof html !== 'string' || html.length < 100, negated
validContent(html) == html.length >= MinLength

\* the checkSingleProduct invocations: the one the screen starts (index.tsx 65)
MSProcs == Manuals

\* the proxy tried last has failed in the way `kind`: by an exception caught at
\* line 228 (thrown) or by a `continue` of the loop body; `pending` are the
\* requests still unanswered.  Lines 160-164, 175: the next iteration issues the
\* next proxy's request; lines 230-233: the catch block of the last proxy throws
\* its error; line 240: the loop left by `continue` throws without one
MS_channelFailed(p, kind, thrown, pending) ==
  /\ cerr' = [cerr EXCEPT ![p] = kind]
  /\ callEmpty' = [callEmpty EXCEPT ![p] =
                     kind = "empty" /\ (cchan[p] = 1 \/ callEmpty[p])]
  /\ IF cchan[p] < NumProxies
     THEN /\ cchan' = [cchan EXCEPT ![p] = @ + 1]
          /\ inflight' = [inflight EXCEPT ![p] = pending \cup {cchan[p] + 1}]
          /\ cpc' = [cpc EXCEPT ![p] = "race"]
          /\ UNCHANGED cres
     ELSE /\ inflight' = [inflight EXCEPT ![p] = pending]
          /\ cres' = [cres EXCEPT ![p] =
               [success |-> FALSE, html |-> PageBlank,
                error |-> IF thrown THEN kind ELSE "All proxy services failed"]]
          /\ cpc' = [cpc EXCEPT ![p] = "readError"]
          /\ UNCHANGED cchan

\* line 188-195: the proxy's response wins the race; !response.ok continues
MS_response(p) ==
  /\ cpc[p] = "race"
  /\ \E ok \in BOOLEAN :
       IF ok
       THEN /\ cpc' = [cpc EXCEPT ![p] = "parse"]
            /\ inflight' = [inflight EXCEPT ![p] = @ \ {cchan[p]}]
            /\ UNCHANGED <<cchan, cerr, callEmpty, cres>>
       ELSE MS_channelFailed(p, "status", FALSE, inflight[p] \ {cchan[p]})
  /\ UNCHANGED <<engineVars, storeVars, cid, cprod, cloaded, countVars, sweepGhost,
                 checkGhost, editVars, classVars>>
  /\ UNCHANGED timerVars

\* line 175, 188, 228: fetch rejects (no connection); the catch block takes it
MS_networkError(p) ==
  /\ cpc[p] = "race"
  /\ MS_channelFailed(p, "network", TRUE, inflight[p] \ {cchan[p]})
  /\ UNCHANGED <<engineVars, storeVars, cid, cprod, cloaded, countVars, sweepGhost,
                 checkGhost, editVars, classVars>>
  /\ UNCHANGED timerVars

\* line 168-173, 188, 228: the 20 s timer rejects the race first; the request
\* issued at line 175 is not cancelled and stays unanswered
MS_timeout(p) ==
  /\ cpc[p] = "race"
  /\ MS_channelFailed(p, "timeout", TRUE, inflight[p])
  /\ UNCHANGED <<engineVars, storeVars, cid, cprod, cloaded, countVars, sweepGhost,
                 checkGhost, editVars, classVars>>
  /\ UNCHANGED timerVars

\* the answer to a request whose race the timer had won arrives; nobody awaits it
MS_lateResponse(p) ==
  /\ \E i \in inflight[p] :
       /\ cpc[p] = "race" => i # cchan[p]
       /\ inflight' = [inflight EXCEPT ![p] = @ \ {i}]
  /\ UNCHANGED <<engineVars, storeVars, checkVars, countVars, sweepGhost, checkGhost,
                 cchan, cerr, callEmpty, editVars, classVars>>
  /\ UNCHANGED timerVars

\* line 288-292: the restock test on the status of the product object passed in
restocked(previousStatus, finalStatus) ==
  previousStatus = "out-of-stock" /\ finalStatus = "in-stock"

\* line 203-226, 273-292: the body is read and parsed; a parse failure and an
\* invalid content continue with the next proxy; valid content is returned,
\* classified, and the restock notification is sent before the result is stored
MS_parse(p) ==
  /\ cpc[p] = "parse"
  /\ \/ /\ MS_channelFailed(p, "parse", FALSE, inflight[p])
        /\ UNCHANGED canalyzed
     \/ \E h \in Payloads :
          IF validContent(h)
          THEN /\ cres' = [cres EXCEPT ![p] =
                    [success |-> TRUE, html |-> h, error |-> "none"]]
               /\ canalyzed' = [canalyzed EXCEPT ![p] = TRUE]
               /\ cpc' = [cpc EXCEPT ![p] =
                    IF restocked(cprod[p].status,
                                 statusOf(MS_analyzeStockStatus(h, cprod[p].url)))
                    THEN "notify" ELSE "readFinal"]
               /\ callEmpty' = [callEmpty EXCEPT ![p] = FALSE]
               /\ UNCHANGED <<cchan, inflight, cerr>>
          ELSE /\ MS_channelFailed(p, IF h.length = 0 THEN "empty" ELSE "short",
                                   FALSE, inflight[p])
               /\ UNCHANGED canalyzed
  /\ UNCHANGED <<engineVars, storeVars, cid, cprod, cloaded, countVars, sweepGhost,
                 cdbfail, cappended, cnotified, editVars, classVars>>
  /\ UNCHANGED timerVars

\* line 291, 474-498: await sendRestockNotification; a failure to schedule is
\* caught inside it
MS_notify(p) ==
  /\ cpc[p] = "notify"
  /\ \E ok \in BOOLEAN : cnotified' = [cnotified EXCEPT ![p] = ok]
  /\ cpc' = [cpc EXCEPT ![p] = "readFinal"]
  /\ UNCHANGED <<engineVars, storeVars, cid, cprod, cres, cloaded, countVars,
                 sweepGhost, cdbfail, canalyzed, cappended, fetchVars, editVars,
                 classVars>>
  /\ UNCHANGED timerVars

(* ---------------- checkSingleProduct (243-336) -------------------------- *)
\* a fault: the written object is built afresh from the id and the new status,
\* not spread from the product passed in
MS_writtenAfresh(p, stage) ==
  [id |-> cid[p], url |-> "", status |-> "error", confidence |-> "NULL",
   detectedPhrases |-> <<"Error">>]

\* the object a stage of checkSingleProduct writes: updatedProduct (251-255),
\* finalProduct (280-286), errorProduct (316-321)
MS_written(p, stage) ==
  IF stage = "checking" THEN [cprod[p] EXCEPT !.status = "checking"]
  ELSE IF stage = "final"
  THEN LET a == MS_analyzeStockStatus(cres[p].html, cprod[p].url)
       IN  [cprod[p] EXCEPT !.status = statusOf(a), !.confidence = a.confidence,
                            !.detectedPhrases = a.detectedPhrases]
  ELSE [cprod[p] EXCEPT !.status = "error",
                        !.detectedPhrases = <<"Error: " \o cres[p].error>>]

\* a call checkSingleProduct(product) with a product of the stored list, up to
\* its first await (line 260)
MS_checkSingleProduct(p) ==
  /\ cpc[p] = "none"
  /\ nChecks < MaxScreenChecks
  /\ nChecks' = nChecks + 1
  /\ \E k \in 1..Len(storage) : IX_StartCheck(p, storage[k])
  /\ cchan' = [cchan EXCEPT ![p] = 0]
  /\ inflight' = [inflight EXCEPT ![p] = {}]
  /\ cerr' = [cerr EXCEPT ![p] = "none"]
  /\ callEmpty' = [callEmpty EXCEPT ![p] = FALSE]
  /\ UNCHANGED <<engineVars, storeVars, nIdleRequests, nBusyRequests, nStarted,
                 dropped, sweepGhost, editVars, classVars>>
  /\ UNCHANGED timerVars

\* line 273, 160-175: fetchWithProxyFallback is called and issues the first request
MS_firstRequest(p) ==
  /\ cchan' = [cchan EXCEPT ![p] = 1]
  /\ inflight' = [inflight EXCEPT ![p] = {1}]
  /\ cpc' = [cpc EXCEPT ![p] = "race"]

\* line 260-268, 297-299, 326-328: await ProductStorage.getProducts() (an
\* unreadable item reads as []) and the lookup; a product that is not in the list
\* is not written
MS_read(p, stage) ==
  /\ cpc[p] = IX_readPc(stage)
  /\ \E ok \in BOOLEAN :
       LET products == IF ok THEN storage ELSE <<>>
       IN  /\ cloaded' = [cloaded EXCEPT ![p] = products]
           /\ IF findIndex(products, cid[p]) > 0
              THEN /\ cpc' = [cpc EXCEPT ![p] = IX_writePc(stage)]
                   /\ UNCHANGED <<cchan, inflight>>
              ELSE IF stage = "checking"
              THEN MS_firstRequest(p)
              ELSE /\ cpc' = [cpc EXCEPT ![p] = "ret"]
                   /\ UNCHANGED <<cchan, inflight>>
  /\ UNCHANGED <<engineVars, storeVars, cid, cprod, cres, countVars, sweepGhost,
                 checkGhost, cerr, callEmpty, editVars, classVars>>
  /\ UNCHANGED timerVars

\* line 263-264, 300-301, 329-330: the list read earlier, with the product
\* replaced, is saved; a failed save is thrown to line 308, or out of the call
\* when the catch block's own save failed
MS_write(p, stage) ==
  /\ cpc[p] = IX_writePc(stage)
  /\ \E ok \in BOOLEAN :
       IF ~ok
       THEN /\ cpc' = [cpc EXCEPT ![p] = IX_throwPc(stage)]
            /\ cdbfail' = [cdbfail EXCEPT ![p] = TRUE]
            /\ UNCHANGED <<storage, cchan, inflight>>
       ELSE /\ storage' = [cloaded[p] EXCEPT ![findIndex(cloaded[p], cid[p])] =
                             MS_written(p, stage)]
            /\ UNCHANGED cdbfail
            /\ IF stage = "checking"
               THEN MS_firstRequest(p)
               ELSE /\ cpc' = [cpc EXCEPT ![p] = "ret"]
                    /\ UNCHANGED <<cchan, inflight>>
  /\ cloaded' = [cloaded EXCEPT ![p] = <<>>]
  /\ UNCHANGED <<engineVars, db, checks, cid, cprod, cres, countVars, sweepGhost,
                 canalyzed, cappended, cnotified, cerr, callEmpty, editVars, classVars>>
  /\ UNCHANGED timerVars

\* index.tsx 65-70: the screen takes the settled call's result; answers to the
\* call's abandoned requests are awaited by nobody
MS_return(p) ==
  /\ cpc[p] \in {"ret", "threw"}
  /\ IX_ClearCheck(p)
  /\ cchan' = [cchan EXCEPT ![p] = 0]
  /\ inflight' = [inflight EXCEPT ![p] = {}]
  /\ cerr' = [cerr EXCEPT ![p] = "none"]
  /\ callEmpty' = [callEmpty EXCEPT ![p] = FALSE]
  /\ UNCHANGED <<engineVars, storeVars, countVars, sweepGhost, editVars, classVars>>
  /\ UNCHANGED timerVars


(* ---------------- ProductStorage.ts, called from the screen ------------- *)
EditOps == {"add", "delete", "update"}

\* ids of the products of a list
IdsOf(products) == {products[k].id : k \in 1..Len(products)}

\* the screen calls addProduct (37-56, with a product id no stored product has),
\* deleteProduct (58-67) or updateProduct (69-82, the result of a check of the
\* product made elsewhere); everything up to the await of getProducts
ED_call(op) ==
  /\ epc = "idle"
  /\ nEdits < MaxEdits
  /\ nEdits' = nEdits + 1
  /\ epc' = op
  /\ eloaded' = <<>>
  /\ IF op = "add"
     THEN /\ MissingId \notin IdsOf(storage)
          /\ earg' = NewProduct(MissingId)
     ELSE \E k \in 1..Len(storage) :
            earg' = IF op = "delete" THEN storage[k]
                    ELSE [storage[k] EXCEPT !.status = "out-of-stock",
                                            !.confidence = "high",
                                            !.detectedPhrases = <<"sold out">>]
  /\ UNCHANGED <<engineVars, storeVars, checkVars, countVars, sweepGhost, checkGhost,
                 fetchVars, classVars>>
  /\ UNCHANGED timerVars

\* line 48, 60, 71: await this.getProducts(); updateProduct of a product that
\* is not in the list ends here (74)
ED_read(op) ==
  /\ epc = op
  /\ IF op = "update" /\ findIndex(storage, earg.id) = 0
     THEN epc' = "idle" /\ eloaded' = <<>> /\ earg' = NullProduct
     ELSE epc' = "save" /\ eloaded' = storage /\ UNCHANGED earg
  /\ UNCHANGED <<engineVars, storeVars, checkVars, countVars, sweepGhost, checkGhost,
                 fetchVars, nEdits, classVars>>
  /\ UNCHANGED timerVars

\* the list an operation saves: products.push(product) (49), products.filter (61),
\* products[index] = updatedProduct (75)
ED_saved(products, product) ==
  IF product.status = "checking" /\ product.id \notin IdsOf(products)
  THEN Append(products, product)
  ELSE IF product.confidence = "high" /\ product.detectedPhrases = <<"sold out">>
  THEN [products EXCEPT ![findIndex(products, product.id)] = product]
  ELSE SelectSeq(products, LAMBDA q : q.id # product.id)

\* line 50, 62, 76: await this.saveProducts(...)
ED_save ==
  /\ epc = "save"
  /\ storage' = ED_saved(eloaded, earg)
  /\ epc' = "idle" /\ eloaded' = <<>> /\ earg' = NullProduct
  /\ UNCHANGED <<engineVars, db, checks, checkVars, countVars, sweepGhost, checkGhost,
                 fetchVars, nEdits, classVars>>
  /\ UNCHANGED timerVars

\* the app starts on a list of freshly added products
InitMS == InitIX

NextMS ==
  \/ \E p \in MSProcs : MS_checkSingleProduct(p)
  \/ \E p \in MSProcs, stage \in Stages : MS_read(p, stage)
  \/ \E p \in MSProcs, stage \in Stages : MS_write(p, stage)
  \/ \E p \in MSProcs : MS_response(p)
  \/ \E p \in MSProcs : MS_networkError(p)
  \/ \E p \in MSProcs : MS_timeout(p)
  \/ \E p \in MSProcs : MS_lateResponse(p)
  \/ \E p \in MSProcs : MS_parse(p)
  \/ \E p \in MSProcs : MS_notify(p)
  \/ \E p \in MSProcs : MS_return(p)
  \/ \E op \in EditOps : ED_call(op)
  \/ \E op \in EditOps : ED_read(op)
  \/ ED_save

SpecMS == InitMS /\ [][NextMS]_vars


(* ---------------- checkAllProducts (100-129) ---------------------------- *)
\* the call checkSingleProduct(product) of a sweep, up to its first await
MS_StartCheck(p, product) ==
  /\ IX_StartCheck(p, product)
  /\ cchan' = [cchan EXCEPT ![p] = 0]
  /\ inflight' = [inflight EXCEPT ![p] = {}]
  /\ cerr' = [cerr EXCEPT ![p] = "none"]
  /\ callEmpty' = [callEmpty EXCEPT ![p] = FALSE]

\* the sweep takes the settled call's result
MS_ClearCheck(p) ==
  /\ IX_ClearCheck(p)
  /\ cchan' = [cchan EXCEPT ![p] = 0]
  /\ inflight' = [inflight EXCEPT ![p] = {}]
  /\ cerr' = [cerr EXCEPT ![p] = "none"]
  /\ callEmpty' = [callEmpty EXCEPT ![p] = FALSE]

\* line 127: this.isChecking = false, after the try/catch
MS_FinishSweep(s, how) ==
  /\ isChecking' = FALSE
  /\ spc' = [spc EXCEPT ![s] = "idle"]
  /\ send' = [send EXCEPT ![s] = how]

\* line 112-116: i++, the loop test, and checkSingleProduct(products[i]) with the
\* product object of the list read at line 110
MS_Advance(s, products) ==
  IF loopContinues(si[s] + 1, Len(products))
  THEN /\ si' = [si EXCEPT ![s] = @ + 1]
       /\ spc' = [spc EXCEPT ![s] = "check"]
       /\ schecked' = [schecked EXCEPT ![s] = Append(@, products[si[s] + 1].id)]
       /\ MS_StartCheck(s, products[si[s] + 1])
       /\ UNCHANGED <<isChecking, send>>
  ELSE /\ MS_FinishSweep(s, "completed")
       /\ MS_ClearCheck(s)
       /\ UNCHANGED <<si, schecked>>

\* line 100-108: an invocation (the 30-minute timer or the screen): the guard,
\* and the flag set before the first await
MS_checkAllProducts(s) ==
  /\ FirstIdle(s)
  /\ nIdleRequests + nBusyRequests < MaxRequests
  /\ nIdleRequests' = IF isChecking THEN nIdleRequests ELSE nIdleRequests + 1
  /\ nBusyRequests' = IF isChecking THEN nBusyRequests + 1 ELSE nBusyRequests
  /\ IF isChecking
     THEN /\ dropped' = dropped + 1
          /\ UNCHANGED <<engineVars, nStarted, sweepGhost>>
     ELSE /\ isChecking' = TRUE
          /\ nStarted' = nStarted + 1
          /\ spc' = [spc EXCEPT ![s] = "getAll"]
          /\ sproducts' = [sproducts EXCEPT ![s] = <<>>]
          /\ si' = [si EXCEPT ![s] = 0]
          /\ sdelays' = [sdelays EXCEPT ![s] = 0]
          /\ schecked' = [schecked EXCEPT ![s] = <<>>]
          /\ send' = [send EXCEPT ![s] = "running"]
          /\ UNCHANGED dropped
  /\ UNCHANGED <<storeVars, checkVars, nChecks, checkGhost, fetchVars, editVars,
                 classVars>>
  /\ UNCHANGED timerVars

\* line 110-117: await ProductStorage.getProducts() (an unreadable item reads as [])
MS_getProducts(s) ==
  /\ spc[s] = "getAll"
  /\ \E ok \in BOOLEAN :
       LET products == IF ok THEN storage ELSE <<>>
       IN  /\ sproducts' = [sproducts EXCEPT ![s] = products]
           /\ MS_Advance(s, products)
  /\ UNCHANGED <<storeVars, countVars, sdelays, editVars, classVars>>
  /\ UNCHANGED timerVars

\* line 117-122: checkSingleProduct has settled; a rejection goes to the catch of 123
MS_afterCheck(s) ==
  /\ spc[s] = "check"
  /\ cpc[s] \in {"ret", "threw"}
  /\ IF cpc[s] = "threw"
     THEN /\ MS_FinishSweep(s, "aborted")
          /\ MS_ClearCheck(s)
          /\ UNCHANGED <<si, schecked>>
     ELSE IF needsDelay(si[s], Len(sproducts[s]))
          THEN /\ spc' = [spc EXCEPT ![s] = "delay"]
               /\ MS_ClearCheck(s)
               /\ UNCHANGED <<isChecking, send, si, schecked>>
          ELSE MS_Advance(s, sproducts[s])
  /\ UNCHANGED <<sproducts, storeVars, countVars, sdelays, editVars, classVars>>
  /\ UNCHANGED timerVars

\* line 120: the 2000 ms timer fires
MS_delay(s) ==
  /\ spc[s] = "delay"
  /\ sdelays' = [sdelays EXCEPT ![s] = @ + 1]
  /\ MS_Advance(s, sproducts[s])
  /\ UNCHANGED <<sproducts, storeVars, countVars, editVars, classVars>>
  /\ UNCHANGED timerVars

\* a stored product as an earlier run of the app left it: never checked, or
\* found sold out
StoredProducts(id) ==
  {NewProduct(id),
   [NewProduct(id) EXCEPT !.status = "out-of-stock", !.confidence = "high",
                          !.detectedPhrases = <<"sold out">>]}

\* the app starts on the list a previous run stored
InitMW ==
  /\ InitCommon
  /\ db = << >>
  /\ checks = <<>>
  /\ storage \in [ProductIds -> UNION {StoredProducts(id) : id \in ProductIds}]
  /\ \A id \in ProductIds : storage[id] \in StoredProducts(id)
  /\ cprod = [p \in Procs |-> NullProduct]

\* the steps of a day without faults: the stored item is readable and writable,
\* and each request is answered 2xx with valid content by the first proxy
MW_getProducts(s) == MS_getProducts(s) /\ sproducts'[s] = storage
MW_read(p, stage) == MS_read(p, stage) /\ cloaded'[p] = storage
MW_write(p, stage) == MS_write(p, stage) /\ ~cdbfail'[p]
MW_response(p) == MS_response(p) /\ cpc'[p] = "parse"
MW_parse(p) == MS_parse(p) /\ cres'[p].success

\* the timer's sweeps and the screen's checks on such a day
NextMW ==
  \/ \E s \in Sweeps : MS_checkAllProducts(s)
  \/ \E s \in Sweeps : MW_getProducts(s)
  \/ \E s \in Sweeps : MS_afterCheck(s)
  \/ \E s \in Sweeps : MS_delay(s)
  \/ \E p \in MSProcs : MS_checkSingleProduct(p)
  \/ \E p \in MSProcs : MS_return(p)
  \/ \E p \in Procs, stage \in Stages : MW_read(p, stage)
  \/ \E p \in Procs, stage \in Stages : MW_write(p, stage)
  \/ \E p \in Procs : MW_response(p)
  \/ \E p \in Procs : MW_parse(p)
  \/ \E p \in Procs : MS_notify(p)

SpecMW == InitMW /\ [][NextMW]_vars


(***************************************************************************)
(* The classifiers applied to pages and addresses of every kind            *)
(***************************************************************************)
\* what the text of a classified page is made of
Fragments == {"currently unavailable", "add to cart", "coming soon", "available"}
Htmls ==
  {[text |-> t, price |-> pr, button |-> b, form |-> f,
    length |-> IF t = {} /\ ~pr /\ ~b /\ ~f THEN 0 ELSE 100] :
     t \in SUBSET Fragments, pr \in BOOLEAN, b \in BOOLEAN, f \in BOOLEAN}

\* StockChecker.analyzeStockStatus(html, url), StockChecker.js 160-257
CL_StockChecker(html, url) ==
  /\ clCall' = [fn |-> "StockChecker", html |-> html, url |-> url,
                out |-> analyzeStockStatus(html)]
  /\ lastIndex' = IF priceTested(html)
                  THEN lastIndexAfter(html, pricePatternsLastIndex) ELSE 0
  /\ UNCHANGED <<engineVars, storeVars, checkVars, countVars, sweepGhost, checkGhost,
                 fetchVars, editVars>>
  /\ UNCHANGED timerVars

\* MatchaStockService.analyzeStockStatus(html, url), MatchaStockService.ts 338-472
\* (line 446: html.match of a global pattern leaves its lastIndex at 0)
CL_MatchaStockService(html, url) ==
  /\ clCall' = [fn |-> "MatchaStockService", html |-> html, url |-> url,
                out |-> MS_analyzeStockStatus(html, url)]
  /\ lastIndex' = 0
  /\ UNCHANGED <<engineVars, storeVars, checkVars, countVars, sweepGhost, checkGhost,
                 fetchVars, editVars>>
  /\ UNCHANGED timerVars

\* analyzeStockStatus(html, url) of the service class in index.tsx, 735-795
\* (line 788: html.match again)
CL_IndexService(html, url) ==
  /\ clCall' = [fn |-> "IndexService", html |-> html, url |-> url,
                out |-> IX_analyzeStockStatus(html, url)]
  /\ lastIndex' = 0
  /\ UNCHANGED <<engineVars, storeVars, checkVars, countVars, sweepGhost, checkGhost,
                 fetchVars, editVars>>
  /\ UNCHANGED timerVars

InitCL == InitSC

\* each classifier is applied to the pages that differ in what it reads: the
\* quantity form is read by MatchaStockService.ts only (line 455), the submit
\* control by StockChecker.js only (line 239)
HtmlsSC == {h \in Htmls : ~h.form}
HtmlsMS == {h \in Htmls : ~h.button}
HtmlsIX == {h \in Htmls : ~h.form /\ ~h.button}

NextCL ==
  \/ \E html \in HtmlsSC, url \in Urls : CL_StockChecker(html, url)
  \/ \E html \in HtmlsMS, url \in Urls : CL_MatchaStockService(html, url)
  \/ \E html \in HtmlsIX, url \in Urls : CL_IndexService(html, url)

SpecCL == InitCL /\ [][NextCL]_vars


(***************************************************************************)
(* Properties                                                              *)
(***************************************************************************)
Running == {s \in Sweeps : spc[s] # "idle"}

\* C1: at most one sweep is active at any time: in no reachable state are two
\* invocations of checkAllProducts past the guard and iterating over products.
\* (Stated for the service class of index.tsx, whose checkAllProducts has no guard.)
C1_OneSweepAtATime == Cardinality(Running) <= 1

\* C2: every exit path of a sweep releases the guard: once the invocation that set
\* isChecking has returned (all products checked, product list unreadable, or a
\* product check raised) and no other is running, isChecking is false.
C2_GuardReleased == (Running = {}) => (isChecking = FALSE)

\* C2 witness: a sweep left through the catch block after a product check raised,
\* and the flag is clear
C2_Witness ==
  \E s \in Sweeps : spc[s] = "idle" /\ send[s] = "aborted" /\ isChecking = FALSE

\* C3: a failure on one product does not abort the remaining products: a sweep
\* that read its product list and has ended has handed every product of the list
\* to checkProduct, also when an earlier check raised.
C3_FailureDoesNotAbort ==
  \A s \in Sweeps :
    (spc[s] = "idle" /\ send[s] \in {"completed", "aborted"})
      => schecked[s] = sproducts[s]

\* the check of process p settles in this step
Settles(p) == cpc[p] \notin {"ret", "threw"} /\ cpc'[p] \in {"ret", "threw"}

\* C4: for every terminal outcome of a per-product check, when the call settles
\* no exception leaves it and the product's stored status is in-stock,
\* out-of-stock or error, never checking.
C4_TerminalAfterCheck ==
  [][\A p \in Procs :
       Settles(p) =>
         /\ cpc'[p] = "ret"
         /\ cid[p] \in DOMAIN db' => db'[cid[p]].status \in TerminalStatus]_vars

\* the status the check of p computed from the page it retrieved
Computed(p) == statusOf(analyzeStockStatus(cres[p].html))

\* C5: a check emits a restock notification if and only if the product's previous
\* status was out-of-stock and the status this check computed is in-stock.
C5_RestockNotification ==
  \A p \in Procs :
    (cpc[p] = "ret" /\ cres[p].success /\ ~cdbfail[p])
      => (cnotified[p] <=> (cprod[p].status = "out-of-stock" /\ Computed(p) = "in-stock"))

\* C6: exactly one CheckRecord is appended per completed check attempt, on the
\* success path and on the fetch-failure path alike: a check of a stored product
\* that has returned, no store operation rejected, has appended one record.
C6_OneRecordPerCheck ==
  \A p \in Procs :
    (cpc[p] = "ret" /\ cprod[p] # NullRow /\ ~cdbfail[p]) => cappended[p] = 1

\* the retrieval of the check of p has failed on every channel
AllChannelsFailed(p) == cres[p].error = "fetch failed" /\ cpc[p] # "axios"

\* C7: when content retrieval fails on every channel the check does not invoke
\* the classifier, stores status error for the product and returns normally; the
\* fetch failure never leaves the call (only a rejected store write does).
C7_FetchFailureCaptured ==
  /\ [](\A p \in Procs :
          AllChannelsFailed(p) =>
            /\ cpc[p] \in {"errUpdate", "catch", "ret", "threw"}
            /\ ~canalyzed[p]
            /\ cpc[p] \in {"catch", "threw"} => cdbfail[p])
  /\ [][\A p \in Procs :
          (AllChannelsFailed(p) /\ cpc[p] = "errUpdate" /\ cpc'[p] = "ret")
            => (cid[p] \in DOMAIN db' => db'[cid[p]].status = "error")]_vars

\* C7 witness: a check whose two channels failed has returned normally, with the
\* product stored as error and the classifier not invoked
C7_Witness ==
  \E p \in Procs :
    /\ cpc[p] = "ret" /\ AllChannelsFailed(p) /\ ~cdbfail[p] /\ ~canalyzed[p]
    /\ db[cid[p]].status = "error"

\* C8: a sweep request that arrives while a sweep is running is dropped, not
\* queued: it changes nothing of the engine, the store or any check, and the
\* number of sweeps ever started equals the number of requests made while the
\* flag was false.
C8_DroppedNotQueued ==
  /\ [](nStarted = nIdleRequests /\ dropped = nBusyRequests)
  /\ [][nBusyRequests' # nBusyRequests
          => UNCHANGED <<engineVars, storeVars, checkVars, nStarted>>]_vars

\* C8 witness: a request was dropped while a sweep ran, that sweep has completed,
\* and still only one sweep has started
C8_Witness ==
  /\ dropped = 1 /\ nStarted = 1 /\ Running = {}
  /\ \E s \in Sweeps : send[s] = "completed"

\* C9: within a sweep products are checked one at a time in stored order; the
\* check of product i+1 starts only after the check of product i has settled and
\* one delay has elapsed; a sweep over n products that checked them all made
\* max(n-1, 0) delays, and no delay follows the last product.
C9_SequentialWithDelays ==
  /\ [](\A s \in Sweeps :
          /\ schecked[s] = SubSeq(sproducts[s], 1, Len(schecked[s]))
          /\ spc[s] \in {"check", "delay"} =>
               (si[s] = Len(schecked[s]) /\ sdelays[s] + 1 = si[s])
          /\ spc[s] = "delay" => (cpc[s] = "none" /\ si[s] < Len(sproducts[s]))
          /\ (spc[s] = "idle" /\ send[s] = "completed") =>
               sdelays[s] = (IF sproducts[s] = <<>> THEN 0 ELSE Len(sproducts[s]) - 1))
  /\ [][\A s \in Sweeps :
          (si[s] >= 1 /\ si'[s] = si[s] + 1)
            => (spc[s] = "delay" /\ sdelays'[s] = sdelays[s] + 1)]_vars

\* C9 witness: a sweep over all the products has completed with one delay less
\* than it has products
C9_Witness ==
  \E s \in Sweeps :
    /\ spc[s] = "idle" /\ send[s] = "completed"
    /\ Len(schecked[s]) = MaxProducts /\ sdelays[s] = MaxProducts - 1

\* C10: a sweep that runs to completion has made exactly one check attempt for
\* every product the store returned at its start, in that order, whatever the
\* product's status (error and checking included).
C10_EveryProductChecked ==
  \A s \in Sweeps :
    (spc[s] = "idle" /\ send[s] = "completed") => schecked[s] = sproducts[s]

\* C10 witness: a sweep is checking a product whose stored status was error when
\* the check read it
C10_Witness ==
  \E s \in Sweeps :
    spc[s] = "check" /\ cpc[s] = "markChecking" /\ cprod[s].status = "error"

(* ------------------------------ classifiers ---------------------------- *)
\* the text of the last classified page
CallText == clCall.html.text

\* the last call's text holds a high-confidence negative / positive phrase of the
\* classifier that was called
HasHighNegative ==
  IF clCall.fn = "StockChecker" THEN FirstMatch(outOfStockPhrasesHigh, CallText) > 0
  ELSE FirstMatch(outOfStockHighConf, CallText) > 0
HasHighPositive ==
  IF clCall.fn = "StockChecker" THEN FirstMatch(inStockPhrasesHigh, CallText) > 0
  ELSE FirstMatch(inStockHighConf, CallText) > 0

\* C14: priority law: for every URL and every text that contains both a
\* high-confidence negative phrase and a high-confidence positive phrase the
\* classification (StockChecker.js, MatchaStockService.ts) has isInStock = false.
C14_NegativeWinsTies ==
  (clCall.fn \in {"StockChecker", "MatchaStockService"}
     /\ HasHighNegative /\ HasHighPositive)
    => clCall.out.isInStock = FALSE

\* C15: site override precedence: for a URL containing "amazon." and a text
\* containing "currently unavailable" and "add to cart" the classifier
\* (MatchaStockService.ts, index.tsx) returns the retailer rule's result
\* {isInStock: false, confidence: high, evidence: ["amazon out of stock"]}.
C15_SiteOverride ==
  (clCall.fn \in {"MatchaStockService", "IndexService"}
     /\ urlIncludes(clCall.url, "amazon.")
     /\ Includes(CallText, "currently unavailable") /\ Includes(CallText, "add to cart"))
    => clCall.out = Analysis(FALSE, "high", <<"amazon out of stock">>)

\* C16: for all inputs the classifier returns a confidence in {low, medium, high},
\* and whenever the confidence is high or medium the evidence list is non-empty.
C16_ConfidenceAndEvidence ==
  clCall.fn # "none" =>
    /\ clCall.out.confidence \in {"low", "medium", "high"}
    /\ clCall.out.confidence \in {"medium", "high"} => clCall.out.detectedPhrases # <<>>

\* C16 witness: a page without phrases was classified with medium confidence on
\* its price and quantity form, and both are named as evidence
C16_Witness ==
  /\ clCall.fn = "MatchaStockService" /\ CallText = {}
  /\ clCall.out.confidence = "medium" /\ Len(clCall.out.detectedPhrases) = 2

\* the last call's page holds none of the phrases configured in the classifier
\* that was called (retailer-specific, high or medium tier)
NoPhrase ==
  IF clCall.fn = "StockChecker" THEN priceTested(clCall.html)
  ELSE /\ FirstMatch(outOfStockHighConf, CallText) = 0
       /\ FirstMatch(inStockHighConf, CallText) = 0
       /\ FirstMatch(outOfStockMedConf, CallText) = 0
       /\ FirstMatch(inStockMedConf, CallText) = 0
       /\ \A ph \in {"kanbai", "shinagire", "kaato ni ireru"} : ~Includes(CallText, ph)
\* ... and no price and no cart/quantity form either
NoSignal ==
  /\ ~clCall.html.price
  /\ IF clCall.fn = "StockChecker" THEN ~clCall.html.button ELSE ~clCall.html.form

\* C17: default-safe law: a text with none of the configured phrases and no price
\* or cart-form signal classifies as isInStock = false with confidence low, and
\* the classifier never returns isInStock = true with confidence low.
C17_DefaultSafe ==
  clCall.fn \in {"StockChecker", "MatchaStockService"} =>
    /\ (NoPhrase /\ NoSignal) =>
         (clCall.out.isInStock = FALSE /\ clCall.out.confidence = "low")
    /\ ~(clCall.out.isInStock /\ clCall.out.confidence = "low")

\* C17 witness: StockChecker classified a page with text but no configured phrase
\* signal, price or control as out of stock with low confidence
C17_Witness ==
  /\ clCall.fn = "StockChecker" /\ NoPhrase /\ NoSignal
  /\ clCall.out = Analysis(FALSE, "low", <<"no indicators found">>)

\* C19: the classifier is pure: classifying again the HTML and URL of the
\* previous call yields the identical verdict, confidence and evidence; nothing
\* an earlier call left behind (the lastIndex of the price patterns) reaches a
\* later one.
C19_ClassifierPure ==
  [][(clCall.fn # "none" /\ clCall'.fn = clCall.fn
        /\ clCall'.html = clCall.html /\ clCall'.url = clCall.url)
       => clCall'.out = clCall.out]_vars

\* C19 witness: StockChecker classified a page on its price, which left the
\* pattern object it tested with a lastIndex past the match
C19_Witness ==
  /\ clCall.fn = "StockChecker" /\ priceTested(clCall.html) /\ clCall.html.price
  /\ lastIndex = 1 /\ clCall.out.detectedPhrases[1] = "price found"

(* ------------------------------ fetcher and store ----------------------- *)
\* C11: within one fetch the channels are tried strictly one after the other: at
\* most one channel request is in flight at any time, also after a channel's
\* timeout has fired.
C11_OneRequestInFlight == \A p \in Procs : Cardinality(inflight[p]) <= 1

\* C12: the fetcher stops at the first channel that returns content passing the
\* minimum-length check: the second channel is attempted only if the first
\* failed, and a fetch that ended in success (the check goes on to classify and
\* store) returned content of the minimum length.
C12_FirstPassingChannel ==
  \A p \in Procs :
    /\ cpc[p] = "axios" => fetchFailed(cres[p])
    /\ cpc[p] \in {"update", "addCheck"} =>
         (cres[p].success /\ validContent(cres[p].html))

\* fetchWithProxyFallback of the check of p has thrown: every proxy failed
FetchThrew(p) == ~cres[p].success /\ cres[p].error # "none"

\* C13: if all channels fail, the fetch failure carries the error of the channel
\* tried last, in whatever way that channel failed (timeout, network error,
\* non-2xx status, parse failure, too-short content).
C13_LastErrorCarried == \A p \in Procs : FetchThrew(p) => cres[p].error = cerr[p]

\* the stored record of product id, NullProduct when the list has none
Stored(products, id) ==
  IF id \in IdsOf(products) THEN products[findIndex(products, id)] ELSE NullProduct

\* C18: when the fetched HTML is empty (every proxy answered with zero-length
\* content) the check, once it has stored its outcome (its saves accepted, no
\* edit of the list in between), has stored status out-of-stock with confidence
\* low for the product and has emitted no notification.
C18_EmptyHtmlOutOfStock ==
  \A p \in Procs :
    (cpc[p] = "ret" /\ callEmpty[p] /\ ~cdbfail[p] /\ nEdits = 0 /\ epc = "idle"
       /\ Stored(storage, cid[p]).status # "checking")
      => /\ Stored(storage, cid[p]).status = "out-of-stock"
         /\ Stored(storage, cid[p]).confidence = "low"
         /\ ~cnotified[p]

\* C20: store updates are atomic per product under interleaving: a save made by
\* the check of product P leaves the stored record of every other product as it
\* was: none changed or reverted, none dropped, none restored.
C20_AtomicPerProduct ==
  [][\A p \in Procs :
       (cpc[p] \in {"writeChecking", "writeFinal", "writeError"} /\ cpc'[p] # cpc[p])
         => \A id \in (IdsOf(storage) \cup IdsOf(storage')) \ {cid[p]} :
              Stored(storage', id) = Stored(storage, id)]_vars

(* ------------------------------ classifier tiers ------------------------ *)
\* the last call's text holds a medium-confidence negative phrase of the
\* classifier that was called
HasMediumNegative ==
  IF clCall.fn = "StockChecker" THEN FirstMatch(outOfStockPhrasesMedium, CallText) > 0
  ELSE FirstMatch(outOfStockMedConf, CallText) > 0

\* C26: the tiers are evaluated in the order generic high negative, generic high
\* positive, medium negative, medium positive: for a URL matching no retailer and
\* a text with no high-confidence negative phrase, a high-confidence positive
\* phrase together with a medium-confidence negative phrase classifies
\* (StockChecker.js, MatchaStockService.ts) as isInStock = true, confidence high.
C26_TierOrder ==
  (clCall.fn \in {"StockChecker", "MatchaStockService"}
     /\ PatternsIn(clCall.url) = {}
     /\ ~HasHighNegative /\ HasHighPositive /\ HasMediumNegative)
    => (clCall.out.isInStock /\ clCall.out.confidence = "high")

\* C27: retailer rules apply only when the URL's host matches the retailer
\* pattern: a URL whose host is no known retailer's, also one whose path or query
\* holds a retailer string, is classified (MatchaStockService.ts, index.tsx) as
\* the generic tiers classify the page.
C27_RetailerByHostOnly ==
  (clCall.fn \in {"MatchaStockService", "IndexService"}
     /\ PatternsInHost(clCall.url) = {})
    => clCall.out = IF clCall.fn = "MatchaStockService"
                    THEN MS_analyzeStockStatus(clCall.html, UrlShop)
                    ELSE IX_analyzeStockStatus(clCall.html, UrlShop)

(* ------------------------------ fetcher, continued ---------------------- *)
\* C28: in fetchWithProxyFallback the statement after the channel loop (throw
\* 'All proxy services failed', line 240) is unreachable: no fetch ever fails
\* with that statement's error, every failure of all channels is thrown from the
\* catch block of the last channel.
C28_FinalThrowUnreachable ==
  \A p \in Procs : cres[p].error # "All proxy services failed"

(* ------------------------------ store, continued ------------------------ *)
\* the check of p is at a save of the list
AtSave(p) == cpc[p] \in {"writeChecking", "writeFinal", "writeError"}

\* C29: a product deleted while its own check is in flight stays deleted: no save
\* of that check (after the fetch succeeded or failed) puts the product back
\* into the stored list.
C29_DeletedStaysDeleted ==
  [][\A p \in Procs :
       (AtSave(p) /\ cpc'[p] # cpc[p] /\ cid[p] \notin IdsOf(storage))
         => cid[p] \notin IdsOf(storage')]_vars

\* C30: a check changes only the status, confidence and evidence of the product
\* it checks: every save the check makes, on the success path and on the error
\* path, leaves the stored product's identity fields (id, url) as they were.
C30_CheckFrame ==
  [][\A p \in Procs :
       (AtSave(p) /\ cpc'[p] # cpc[p]
          /\ cid[p] \in IdsOf(storage) /\ cid[p] \in IdsOf(storage'))
         => /\ Stored(storage', cid[p]).id = Stored(storage, cid[p]).id
            /\ Stored(storage', cid[p]).url = Stored(storage, cid[p]).url]_vars

\* C30 witness: a check has stored status error for the product at the Amazon
\* address after its fetch failed, and the stored product still has that address
C30_Witness ==
  \E p \in Procs :
    /\ cpc[p] = "ret" /\ FetchThrew(p) /\ ~cdbfail[p]
    /\ Stored(storage, cid[p]).status = "error"
    /\ Stored(storage, cid[p]).url = UrlAmazon

(* ------------------------------ channels -------------------------------- *)
\* C21: the first retrieval attempt of every fetch is a direct HTTP GET of the
\* product URL: the request of the first channel goes to the product's own
\* address (and the later channels' requests follow only a failure of it).
C21_DirectFirst ==
  \A p \in Procs :
    cchan[p] >= 1 => getUrl(1, cprod[p].url) = directUrl(cprod[p].url)

\* C23: within a check the restock notification is emitted only after the new
\* status has been persisted: when a check emits its notification, the store
\* already holds status in-stock for the product.
C23_NotifyAfterPersist ==
  [][\A p \in Procs :
       (~cnotified[p] /\ cnotified'[p])
         => Stored(storage, cid[p]).status = "in-stock"]_vars

(* ------------------------------ overlapping checks ---------------------- *)
\* the status the check of p wrote last before it returned: the computed one,
\* or error from the failure branch or the catch block
WrittenBy(p) == IF cres[p].success /\ ~cdbfail[p] THEN Computed(p) ELSE "error"

\* C24: when an on-demand check and a sweep's check of the same product overlap,
\* last write wins: when the second of the two checks returns (no store
\* operation of either was rejected), the product's stored status is terminal
\* and is the result written by that check, the one that finished last.
C24_LastWriteWins ==
  [][\A p \in Procs, q \in Procs :
       (p # q /\ cid[p] = cid[q] /\ cid[p] \in DOMAIN db
          /\ cpc[q] = "ret" /\ Settles(p) /\ cpc'[p] = "ret"
          /\ ~cdbfail[q] /\ ~cdbfail'[p])
         => /\ db'[cid[p]].status \in TerminalStatus
            /\ db'[cid[p]].status = WrittenBy(p)]_vars

(* ------------------------------ progress -------------------------------- *)
\* C25: no permanent scheduler lockout: every sweep that starts eventually
\* finishes and clears isChecking, provided every channel request responds, fails
\* or times out and every store operation returns (so that a request made after
\* that point passes the guard).
C25_NoLockout == isChecking ~> ~isChecking

\* C25 witness: a sweep over all products, one of whose checks found no channel
\* answering, has completed and the flag is clear
C25_Witness ==
  \E s \in Sweeps :
    /\ spc[s] = "idle" /\ send[s] = "completed" /\ Len(schecked[s]) = MaxProducts
    /\ ~isChecking
    /\ \E id \in DOMAIN db : db[id].status = "error"

(* ------------------------------ restock notifications ------------------- *)
\* C22: the previous status a check compares against is the product's stored
\* status at the moment the check begins, so each stored out-of-stock to
\* in-stock transition produces at most one notification: an on-demand check and
\* the sweep's check of the same product never both notify for it (no check
\* stores out-of-stock in between: no channel serves a sold-out page).
C22_OneNotificationPerRestock ==
  \A p \in Procs, q \in Procs :
    (p # q /\ cid[p] # 0 /\ cid[p] = cid[q]) => ~(cnotified[p] /\ cnotified[q])

(* ------------------------------ in-progress mark ------------------------ *)
\* C31: a check persists status checking for the product before it issues any
\* retrieval request: when the check's first channel request goes out, the store
\* holds status checking for the product (still in the list).
C31_CheckingBeforeRequest ==
  [][\A p \in Procs :
       (cchan[p] = 0 /\ cchan'[p] = 1 /\ cid[p] \in IdsOf(storage'))
         => Stored(storage', cid[p]).status = "checking"]_vars

\* the evidence stored for a product names the error err: as a phrase of its
\* own, or in the form `Error: <message>` that the app services store
ShowsError(phrases, err) ==
  \E i \in DOMAIN phrases : phrases[i] \in {err, "Error: " \o err}

\* C32: after a check that ends in error (its error status written, the check
\* returned), the product's stored evidence contains the error of that attempt's
\* fetch failure, and hence no longer only the evidence of an earlier check.
C32_ErrorInEvidence ==
  \A p \in Procs :
    (/\ cpc[p] = "ret" /\ ~cres[p].success /\ ~cdbfail[p]
     /\ cid[p] \in DOMAIN db /\ db[cid[p]].status = "error")
      => ShowsError(db[cid[p]].detected_phrases, cres[p].error)

(* ------------------------------ the scheduler --------------------------- *)
\* C33: after stopPeriodicChecking returns, no timer of the scheduler (interval
\* or warm-up) starts a sweep until startPeriodicChecking is called again: a
\* timer callback that starts a sweep runs only while scheduling is on.
C33_NoSweepAfterStop ==
  [][(nFired' = nFired + 1 /\ nStarted' = nStarted + 1) => scheduling]_vars

\* C34: at any time at most one recurring interval timer is active, and it is
\* the stored one; after a stop call none is active.
C34_OneIntervalTimer ==
  /\ Cardinality(intervals) <= 1
  /\ intervals = IF checkInterval = 0 THEN {} ELSE {checkInterval}
  /\ ~scheduling => intervals = {}

\* started twice (the second start replaced the first timer), then stopped
C34_Witness == nTimers = 4 /\ ~scheduling /\ intervals = {}

====
